---- MODULE Spec2Model ----
(***************************************************************************)
(* A model of rdrview's readability engine: the retry loop of              *)
(* grab_article(), the text normaliser, the metadata harvester, the quick  *)
(* "readerable" check and the parse() pipeline over a DOM tree.            *)
(*                                                                         *)
(* Each part of the engine has its own specification over its own group of *)
(* variables; the variables of the other groups stay at their idle values. *)
(***************************************************************************)
EXTENDS Integers, Sequences, FiniteSets, TLC

VARIABLES
    \* ---- grab_article() retry loop
    flags,      \* options.flags restricted to the three retry flags
    attempts,   \* static struct attempt attempts[4]
    pc,         \* position in grab_article(): "loop", "pick", "done"
    tempdoc,    \* identity of the working copy in use (0: none yet)
    result,     \* article returned by grab_article() (0: NULL)
    tried,      \* history of the attempts made, in order
    \* ---- strcpy_normalize()
    nsrc,       \* the source string, a sequence of bytes without terminator
    nout,       \* result of normalizing nsrc
    nout2,      \* result of normalizing nout
    npc,        \* "init", "once", "twice"
    \* ---- get_article_metadata()
    mseen,      \* the nodes run_on_nodes() has visited, in document order
    metadata,   \* struct metadata: title, byline, excerpt, site_name
    best_i,     \* the static best_i of is_better_title/byline/excerpt
    titlenode,  \* the pointer run_on_nodes() will return
    mpc,        \* "walk", "done"
    \* ---- is_probably_readerable()
    rdoc,       \* the document: its elements in document order
    rverdict,   \* is_probably_readerable(rdoc)
    rdoc2,      \* rdoc with one more <p> of 200 letters
    rverdict2,  \* is_probably_readerable(rdoc2)
    rpc,        \* "start", "checked", "inserted", "rechecked"
    \* ---- parse()
    pchildless, \* whether the root element of the input had no children
    pdoc,       \* the document grab_article() works on (tempdoc)
    ptop,       \* the top candidate, a node of pdoc (0: not chosen yet)
    ptopnew,    \* top_is_new
    part,       \* the article built by gather_related_content()
    pkept,      \* the embeds clean_all() found to hold a video, by identity
    pret,       \* the node parse() returns
    pout,       \* "running", "ok", "no content", "no body tag", "sigsegv"
    ppc,        \* "parse", "grab", "gather", "prep", "main", "empty",
                \* "attempted", "exit"
    \* ---- main(): the parent process, the forked child and the files
    disable_sandbox, \* options.disable_sandbox
    handlers,   \* whether set_cleanup_handlers() has run
    mainpc,     \* position of the parent in main()
    tmpdir,     \* whether the parent's tmpdir is set (not NULL)
    ended,      \* how the parent ended: "running", "return", "exit", "signal"
    redirects,  \* html redirects followed so far
    childpc,    \* position of the forked child ("none": no child)
    child_tmpdir, \* whether the child's copy of tmpdir is set
    sandboxed,  \* whether the child has loaded its sandbox
    wstatus,    \* exit status of the child
    files,      \* which of "dir", "input", "output" exist on disk
    events,     \* what was done to the document and to the files, by whom
    \* ---- the document before and after its preparation by parse()
    ddoc,       \* the document as parsed by libxml2
    dcheck,     \* the verdict of rdrview -c ("none": not run yet)
    dprep,      \* the document once parse() has prepared it
    dmeta,      \* the Readerable line of rdrview -M ("none": not printed)
    dpc,        \* "start", "checked", "prepared", "done"
    \* ---- the scoring of one attempt of grab_article()
    sdoc,       \* the working copy after the walk that marks the nodes to score
    stops,      \* the static tops[] of consider_for_top_list()
    scur,       \* the node run_on_nodes() is at (0: past the last one)
    slog,       \* what the scoring has done so far, as a set of records
    sattempt,   \* the number of the attempt
    spc,        \* "assign", "consider", "top", "done"
    \* ---- the walk of grab_article() that looks for the byline
    bdoc,       \* the document, which every attempt copies
    btemp,      \* the working copy of the attempt
    bcur,       \* the node the walk is at (0: past the last one)
    bstrip,     \* OPT_STRIP_UNLIKELY
    found_byline, \* the static found_byline of check_byline()
    bbyline,    \* metadata.byline (0: NULL)
    bvisited,   \* the nodes given to no_need_to_score(), in order
    bcaptured,  \* the nodes check_byline() took for the byline, in order
    battempt,   \* the number of the attempt
    bpc,        \* "walk", "walked", "scored", or how the program ended
    \* ---- bw_remove_descendants_if()
    wdoc,       \* the tree before the call
    wtree,      \* the tree
    wroot,      \* the node given to bw_remove_descendants_if()
    wcur,       \* curr
    wevals,     \* the nodes the condition was evaluated on, in order
    wpc,        \* "walk", "done"
    \* ---- word_count()
    cstr,       \* the string, a sequence of bytes without its terminator
    cplain,     \* word_count(cstr, false)
    cseps,      \* word_count(cstr, true)
    cpc,        \* "start", "plain", "done"
    \* ---- parse(): the steps up to get_article_metadata()
    hdoc,       \* the document as parsed
    hwork,      \* the document, as the steps of parse() have changed it
    hsteps,     \* the steps that have modified the document
    hsite,      \* metadata.site_name; "" stands for NULL
    hpc,        \* the position in parse()
    \* ---- build_srcset(): the srcset assembled from its entries
    eents,      \* the entries: the lengths of the url and of the size of each
    ecurr,      \* curr, as an index into the entries
    elen,       \* len, the length computed for the allocation
    eused,      \* the bytes of the buffer written so far, from its start
    epc,        \* the position in build_srcset()
    \* ---- grab_article(): the node passed to extract_text_direction()
    gflags,     \* options.flags, as the retries clear them
    gattempts,  \* the static attempts[] array
    gtop,       \* top: the attempt it comes from and whether it has been freed
    garticle,   \* article: the attempt it comes from and its text length
    gresult,    \* the article that get_best_attempt() returns, 0 for NULL
    gpassed,    \* the node that extract_text_direction() was called with
    gpc,        \* the position in grab_article()
    \* ---- main(): the loop that follows html redirects
    usite,      \* the pages of the remote site: the page each one redirects to, 0 for none
    ukind,      \* the input: a remote url, a local file or the standard input
    uurl,       \* the page that options.url names or that the input holds
    udoc,       \* the meta refresh target of the document in the input file, 0 for none
    uret,       \* ret, the exit status of the child
    upc,        \* the position in main()
    \* ---- clean_temp_filepath() and the signals that interrupt it
    kptr,       \* inputfile, outputfile and tmpdir: "null", "alloc" or "freed"
    kfs,        \* what exists of the directory and the two files
    kmain,      \* the position of main()
    kstack,     \* the calls of clean_temp_filepath() in progress, the innermost last
    kbad,       \* the memory errors that have happened
    kended      \* how the process ended, "running" until then

loopVars == <<flags, attempts, pc, tempdoc, result, tried>>

normVars == <<nsrc, nout, nout2, npc>>

metaVars == <<mseen, metadata, best_i, titlenode, mpc>>

readVars == <<rdoc, rverdict, rdoc2, rverdict2, rpc>>

parseVars == <<pchildless, pdoc, ptop, ptopnew, part, pkept, pret, pout, ppc>>

procVars ==
    <<disable_sandbox, handlers, mainpc, tmpdir, ended, redirects, childpc,
      child_tmpdir, sandboxed, wstatus, files, events>>

prepVars == <<ddoc, dcheck, dprep, dmeta, dpc>>

scoreVars == <<sdoc, stops, scur, slog, sattempt, spc>>

baseVars ==
    <<loopVars, normVars, metaVars, readVars, parseVars, procVars, prepVars>>

bylineVars == <<bdoc, btemp, bcur, bstrip, found_byline, bbyline, bvisited, bcaptured, battempt, bpc>>

walkVars == <<wdoc, wtree, wroot, wcur, wevals, wpc>>

wordsVars == <<cstr, cplain, cseps, cpc>>

harvestVars == <<hdoc, hwork, hsteps, hsite, hpc>>

srcsetVars == <<eents, ecurr, elen, eused, epc>>

dirVars == <<gflags, gattempts, gtop, garticle, gresult, gpassed, gpc>>

redirVars == <<usite, ukind, uurl, udoc, uret, upc>>

cleanVars == <<kptr, kfs, kmain, kstack, kbad, kended>>

restVars == <<scoreVars, bylineVars, walkVars, wordsVars, harvestVars, srcsetVars, dirVars, redirVars, cleanVars>>

vars == <<baseVars, restVars>>

\* The values a group of variables keeps while another part is running
LoopIdle ==
    /\ flags = {}
    /\ attempts = <<>>
    /\ pc = "idle"
    /\ tempdoc = 0
    /\ result = 0
    /\ tried = <<>>

NormIdle ==
    /\ nsrc = <<>>
    /\ nout = <<>>
    /\ nout2 = <<>>
    /\ npc = "idle"

MetaIdle ==
    /\ mseen = <<>>
    /\ metadata = <<>>
    /\ best_i = <<>>
    /\ titlenode = <<>>
    /\ mpc = "idle"

ReadIdle ==
    /\ rdoc = <<>>
    /\ rverdict = FALSE
    /\ rdoc2 = <<>>
    /\ rverdict2 = FALSE
    /\ rpc = "idle"

ParseIdle ==
    /\ pchildless = FALSE
    /\ pdoc = <<>>
    /\ ptop = 0
    /\ ptopnew = FALSE
    /\ part = <<>>
    /\ pkept = {}
    /\ pret = <<>>
    /\ pout = "idle"
    /\ ppc = "idle"

ProcIdle ==
    /\ disable_sandbox = FALSE
    /\ handlers = FALSE
    /\ mainpc = "idle"
    /\ tmpdir = FALSE
    /\ ended = "idle"
    /\ redirects = 0
    /\ childpc = "idle"
    /\ child_tmpdir = FALSE
    /\ sandboxed = FALSE
    /\ wstatus = 0
    /\ files = {}
    /\ events = {}

PrepIdle ==
    /\ ddoc = <<>>
    /\ dcheck = "idle"
    /\ dprep = <<>>
    /\ dmeta = "idle"
    /\ dpc = "idle"

ScoreIdle ==
    /\ sdoc = <<>>
    /\ stops = <<>>
    /\ scur = 0
    /\ slog = {}
    /\ sattempt = 0
    /\ spc = "idle"

BylineIdle ==
    /\ bdoc = <<>>
    /\ btemp = <<>>
    /\ bcur = 0
    /\ bstrip = FALSE
    /\ found_byline = FALSE
    /\ bbyline = 0
    /\ bvisited = <<>>
    /\ bcaptured = <<>>
    /\ battempt = 0
    /\ bpc = "idle"

WalkIdle ==
    /\ wdoc = <<>>
    /\ wtree = <<>>
    /\ wroot = 0
    /\ wcur = 0
    /\ wevals = <<>>
    /\ wpc = "idle"

WordsIdle ==
    /\ cstr = <<>>
    /\ cplain = 0
    /\ cseps = 0
    /\ cpc = "idle"

HarvestIdle ==
    /\ hdoc = <<>>
    /\ hwork = <<>>
    /\ hsteps = <<>>
    /\ hsite = ""
    /\ hpc = "idle"

SrcsetIdle ==
    /\ eents = <<>>
    /\ ecurr = 0
    /\ elen = 0
    /\ eused = 0
    /\ epc = "idle"

DirIdle ==
    /\ gflags = {}
    /\ gattempts = <<>>
    /\ gtop = <<>>
    /\ garticle = <<>>
    /\ gresult = 0
    /\ gpassed = <<>>
    /\ gpc = "idle"

RedirIdle ==
    /\ usite = <<>>
    /\ ukind = "none"
    /\ uurl = 0
    /\ udoc = 0
    /\ uret = 0
    /\ upc = "idle"

CleanIdle ==
    /\ kptr = <<>>
    /\ kfs = {}
    /\ kmain = "idle"
    /\ kstack = <<>>
    /\ kbad = {}
    /\ kended = "running"

BaseIdle ==
    /\ LoopIdle /\ NormIdle /\ MetaIdle /\ ReadIdle
    /\ ParseIdle /\ ProcIdle /\ PrepIdle

\* The later groups keep their idle values, but for the one that is running
RestIdleBut(g) ==
    /\ IF g = "score" THEN TRUE ELSE ScoreIdle
    /\ IF g = "byline" THEN TRUE ELSE BylineIdle
    /\ IF g = "walk" THEN TRUE ELSE WalkIdle
    /\ IF g = "words" THEN TRUE ELSE WordsIdle
    /\ IF g = "harvest" THEN TRUE ELSE HarvestIdle
    /\ IF g = "srcset" THEN TRUE ELSE SrcsetIdle
    /\ IF g = "dir" THEN TRUE ELSE DirIdle
    /\ IF g = "redir" THEN TRUE ELSE RedirIdle
    /\ IF g = "clean" THEN TRUE ELSE CleanIdle

RestUnchangedBut(g) ==
    /\ IF g = "score" THEN TRUE ELSE UNCHANGED scoreVars
    /\ IF g = "byline" THEN TRUE ELSE UNCHANGED bylineVars
    /\ IF g = "walk" THEN TRUE ELSE UNCHANGED walkVars
    /\ IF g = "words" THEN TRUE ELSE UNCHANGED wordsVars
    /\ IF g = "harvest" THEN TRUE ELSE UNCHANGED harvestVars
    /\ IF g = "srcset" THEN TRUE ELSE UNCHANGED srcsetVars
    /\ IF g = "dir" THEN TRUE ELSE UNCHANGED dirVars
    /\ IF g = "redir" THEN TRUE ELSE UNCHANGED redirVars
    /\ IF g = "clean" THEN TRUE ELSE UNCHANGED cleanVars

(***************************************************************************)
(* grab_article(): the retry loop                                          *)
(***************************************************************************)

OPT_STRIP_UNLIKELY == "strip_unlikely"
OPT_WEIGHT_CLASSES == "weight_classes"
OPT_CLEAN_CONDITIONALLY == "clean_conditionally"

\* parse_arguments() sets the three flags before anything runs
DefaultFlags == {OPT_STRIP_UNLIKELY, OPT_WEIGHT_CLASSES, OPT_CLEAN_CONDITIONALLY}

DEFAULT_CHAR_THRESHOLD == 500

\* static struct attempt attempts[4]
NumAttemptSlots == 4

\* The normalized text lengths an attempt's article may have; which one an
\* attempt gets depends on the document, which is the environment's choice.
ArticleLens == {0, 120, 499, 500, 800}

EmptySlot == [article |-> 0, length |-> 0]

\* save_attempt(): the index of the first slot whose article is NULL, or 0
FreeSlot(att) ==
    IF \E i \in 1..NumAttemptSlots : att[i].article = 0
    THEN CHOOSE i \in 1..NumAttemptSlots :
            /\ att[i].article = 0
            /\ \A j \in 1..(i - 1) : att[j].article # 0
    ELSE 0

\* save_attempt(): with NDEBUG the assert(false) after the loop is compiled
\* out, so an attempt that finds no free slot is dropped
save_attempt(att, article, len) ==
    IF FreeSlot(att) = 0 THEN att
    ELSE [att EXCEPT ![FreeSlot(att)] = [article |-> article, length |-> len]]

\* needs_one_more_try(): the flags for the next attempt
ClearOneFlagWrongOrder(f) ==
    IF OPT_WEIGHT_CLASSES \in f THEN f \ {OPT_WEIGHT_CLASSES}
    ELSE IF OPT_STRIP_UNLIKELY \in f THEN f \ {OPT_STRIP_UNLIKELY}
    ELSE IF OPT_CLEAN_CONDITIONALLY \in f THEN f \ {OPT_CLEAN_CONDITIONALLY}
    ELSE f

ClearOneFlag(f) ==
    IF OPT_STRIP_UNLIKELY \in f THEN f \ {OPT_STRIP_UNLIKELY}
    ELSE IF OPT_WEIGHT_CLASSES \in f THEN f \ {OPT_WEIGHT_CLASSES}
    ELSE IF OPT_CLEAN_CONDITIONALLY \in f THEN f \ {OPT_CLEAN_CONDITIONALLY}
    ELSE f

\* needs_one_more_try() after save_attempt(): its return value and the flags
\* it leaves, given the article's length and the flags in force
needs_one_more_try(len, f) ==
    IF len >= DEFAULT_CHAR_THRESHOLD THEN [again |-> FALSE, flags |-> f]
    ELSE IF f # {} THEN [again |-> TRUE, flags |-> ClearOneFlag(f)]
    ELSE [again |-> FALSE, flags |-> f]

\* get_best_attempt(): scan slots 2..4 against the best so far
RECURSIVE BestFromLatest(_, _, _)
BestFromLatest(att, best, i) ==
    IF i > NumAttemptSlots THEN best
    ELSE IF att[i].length < att[best].length
         THEN BestFromLatest(att, best, i + 1)
         ELSE BestFromLatest(att, i, i + 1)

RECURSIVE BestFrom(_, _, _)

BestFrom(att, best, i) ==
    IF i > NumAttemptSlots THEN best
    ELSE IF att[i].length <= att[best].length THEN BestFrom(att, best, i + 1)
    ELSE BestFrom(att, i, i + 1)

get_best_attempt(att) ==
    LET best == BestFrom(att, 1, 2)
    IN  IF att[best].length # 0 THEN att[best].article ELSE 0

LoopInit ==
    /\ flags = DefaultFlags
    /\ attempts = [i \in 1..NumAttemptSlots |-> EmptySlot]
    /\ pc = "loop"
    /\ tempdoc = 0
    /\ result = 0
    /\ tried = <<>>

\* One iteration of the do-while loop, from xmlCopyDoc() to the evaluation of
\* needs_one_more_try(): the article of this attempt is identified by the
\* number of the attempt; an article left without children skips the main div
\* and has length 0.
Attempt ==
    /\ pc = "loop"
    /\ \E len \in ArticleLens, childless \in BOOLEAN :
        LET n == Len(tried) + 1
            alen == IF childless THEN 0 ELSE len
        IN  /\ tempdoc' = tempdoc + 1
            /\ attempts' = save_attempt(attempts, n, alen)
            /\ tried' = Append(tried, [article |-> n, length |-> alen,
                                       flags |-> flags, doc |-> tempdoc + 1,
                                       slot |-> FreeSlot(attempts),
                                       maindiv |-> ~childless])
            /\ flags' = needs_one_more_try(alen, flags).flags
            /\ pc' = IF needs_one_more_try(alen, flags).again
                     THEN "loop" ELSE "pick"
    /\ UNCHANGED <<result, normVars, metaVars, readVars, parseVars, procVars, prepVars, restVars>>

\* After the loop: get_best_attempt(), free_attempts_except(), return
Pick ==
    /\ pc = "pick"
    /\ result' = get_best_attempt(attempts)
    /\ pc' = "done"
    /\ UNCHANGED <<flags, attempts, tempdoc, tried, normVars, metaVars, readVars, parseVars, procVars, prepVars, restVars>>

(***************************************************************************)
(* strcpy_normalize(), byte by byte                                        *)
(***************************************************************************)

MaxStrLen == 4

ByteA == 97
ByteB == 98
SP == 32
TAB == 9
NUL == 0
\* A byte that is neither a space nor part of any sequence looked for
OtherByte == 255

NBSP == <<194, 160>>        \* "\xc2\xa0"
ZWSP == <<226, 128, 139>>   \* "\xe2\x80\x8b"

\* The characters input strings are made of, as byte sequences
NormChars == {<<ByteA>>, <<ByteB>>, <<SP>>, <<TAB>>, NBSP, ZWSP}

RECURSIVE Flatten(_)
Flatten(cs) == IF cs = <<>> THEN <<>> ELSE Head(cs) \o Flatten(Tail(cs))

CharStrings(n) == UNION {[1..k -> NormChars] : k \in 0..n}

\* What the byte before the destination buffer may hold: the function reads
\* it when the write cursor is stepped back at the start of the string
PreBytes == {SP, OtherByte}

\* isspace() in the C locale
isspace(b) == b \in {9, 10, 11, 12, 13, 32}

\* src[i], 1-based; the terminator follows the last byte
SrcAt(src, i) == IF i >= 1 /\ i <= Len(src) THEN src[i] ELSE NUL

\* memcmp(src + i, pat, Len(pat)) == 0
BytesAt(src, i, pat) == \A k \in 1..Len(pat) : SrcAt(src, i + k - 1) = pat[k]

\* The while loop of lines 103-106: the position after the run of white space
RECURSIVE SkipSpaces(_, _)
SkipSpaces(src, i) ==
    IF isspace(SrcAt(src, i)) THEN SkipSpaces(src, i + 1)
    ELSE IF SrcAt(src, i) # NUL /\ BytesAt(src, i, NBSP) THEN SkipSpaces(src, i + 2)
    ELSE i

\* Lines 112-113: step the read cursor back when the byte under the write
\* cursor is a space
StepBackNever(destval, i) == i

StepBack(destval, i) == IF destval = SP THEN i - 1 ELSE i

\* dest[d] for d >= -1; dest[-1] is the byte before the buffer
DestAt(out, d, pre) == IF d < 0 THEN pre ELSE out[d]

\* The last byte of the source (1-based; the terminator is Len(src) + 1)
\* that memcmp(src + i, pat, n) is handed: all n bytes belong to the call,
\* and how many of them a build reads after the first difference is not
\* defined
MemcmpSpan(i, pat) == i + Len(pat) - 1

Max2(a, b) == IF a >= b THEN a ELSE b

\* The for loop of lines 99-115. i: read cursor (1-based), d: write cursor
\* (0-based), out: the destination buffer, under: whether dest[-1] was
\* read, span: the last byte of the source handed to a read so far
RECURSIVE NormLoop(_, _, _, _, _, _, _)
NormLoop(src, i, d, out, pre, under, span) ==
    IF SrcAt(src, i) = NUL
    THEN [buf |-> [out EXCEPT ![d] = NUL], end |-> d, under |-> under,
          last |-> i, span |-> Max2(span, i)]
    ELSE LET i1 == SkipSpaces(src, i)
             out1 == [out EXCEPT ![d] = IF i1 > i THEN SP ELSE SrcAt(src, i)]
             z == BytesAt(src, i1, ZWSP)
             d2 == IF z THEN d - 1 ELSE d
             i2 == IF z THEN i1 + 2 ELSE i1
             i3 == StepBack(DestAt(out1, d2, pre), i2)
         IN  NormLoop(src, i3 + 1, d2 + 1, out1, pre, under \/ d2 < 0,
                      Max2(span, MemcmpSpan(i1, ZWSP)))

\* strcpy_normalize(dest, src) into a buffer of strlen(src) + 1 bytes, as
\* node_get_normalized_content() and parse_meta_attrs() allocate it
NormRun(src, pre) ==
    NormLoop(src, 1, 0, [k \in 0..Len(src) |-> OtherByte], pre, FALSE, 0)

\* The string left in dest
strcpy_normalize(src, pre) ==
    LET r == NormRun(src, pre) IN [k \in 1..r.end |-> r.buf[k - 1]]

NormInit ==
    /\ nsrc \in {Flatten(cs) : cs \in CharStrings(MaxStrLen)}
    /\ nout = <<>>
    /\ nout2 = <<>>
    /\ npc = "init"

NormalizeOnce ==
    /\ npc = "init"
    /\ \E pre \in PreBytes : nout' = strcpy_normalize(nsrc, pre)
    /\ npc' = "once"
    /\ UNCHANGED <<nsrc, nout2, loopVars, metaVars, readVars, parseVars, procVars, prepVars, restVars>>

NormalizeAgain ==
    /\ npc = "once"
    /\ \E pre \in PreBytes : nout2' = strcpy_normalize(nout, pre)
    /\ npc' = "twice"
    /\ UNCHANGED <<nsrc, nout, loopVars, metaVars, readVars, parseVars, procVars, prepVars, restVars>>

NormNext == NormalizeOnce \/ NormalizeAgain

(***************************************************************************)
(* The metadata harvester: get_article_metadata()                          *)
(***************************************************************************)

MaxMetaNodes == 3

\* A string pointer: NULL, or a string of bytes
NullStr == [null |-> TRUE, s |-> <<>>]
Str(s) == [null |-> FALSE, s |-> s]

\* A name or property attribute is a sequence of words; <<>> is a missing one
titlenames ==
    <<"dc:title", "dcterm:title", "og:title", "weibo:article:title",
      "weibo:webpage:title", "title", "twitter:title">>
authornames == <<"dc:creator", "dcterm:creator", "author">>
excerptnames ==
    <<"dc:description", "dcterm:description", "og:description",
      "weibo:article:description", "weibo:webpage:description",
      "description", "twitter:description">>

MetaPrefixes == {"dc", "dcterm", "og", "twitter"}
NamePrefixes == MetaPrefixes \cup {"weibo:article", "weibo:webpage"}
MetaSuffixes == {"author", "creator", "description", "title", "site_name"}

\* The words PROPERTY_RE finds a match in, among words without white space
PropertyWords == {p \o ":" \o x : p \in MetaPrefixes, x \in MetaSuffixes}

\* The words NAME_RE matches
NameWords ==
    MetaSuffixes \cup
    {p \o c \o x : p \in NamePrefixes, c \in {".", ":"}, x \in MetaSuffixes}

\* regex_matches(&property_re, property): the pattern is not anchored
property_re(attr) == \E i \in 1..Len(attr) : attr[i] \in PropertyWords

\* regex_matches(&name_re, name): anchored at both ends
name_re(attr) == Len(attr) = 1 /\ attr[1] \in NameWords

\* replace_char(nameprop, '.', ':') on one word
DotToColon(w) ==
    IF \E p \in NamePrefixes, x \in MetaSuffixes : w = p \o "." \o x
    THEN CHOOSE v \in NameWords :
            \E p \in NamePrefixes, x \in MetaSuffixes :
                w = p \o "." \o x /\ v = p \o ":" \o x
    ELSE w

replace_char(attr) == [i \in 1..Len(attr) |-> DotToColon(attr[i])]

\* word_in_str(): is this one of the words of the string
word_in_str(attr, word) == \E i \in 1..Len(attr) : attr[i] = word

\* The loop shared by is_better_title(), is_better_byline() and
\* is_better_excerpt(): the first 0-based index i with i <= best whose name
\* is a word of nameprop, or -1
BetterIndexStrict(names, nameprop, best) ==
    LET hits == {i \in 0..(Len(names) - 1) :
                    i < best /\ word_in_str(nameprop, names[i + 1])}
    IN  IF hits = {} THEN -1
        ELSE CHOOSE i \in hits : \A j \in hits : i <= j

BetterIndex(names, nameprop, best) ==
    LET hits == {i \in 0..(Len(names) - 1) :
                    i <= best /\ word_in_str(nameprop, names[i + 1])}
    IN  IF hits = {} THEN -1
        ELSE CHOOSE i \in hits : \A j \in hits : i <= j

is_better_title(nameprop, best) == BetterIndex(titlenames, nameprop, best)
is_better_byline(nameprop, best) == BetterIndex(authornames, nameprop, best)
is_better_excerpt(nameprop, best) == BetterIndex(excerptnames, nameprop, best)

\* parse_meta_attrs(): the metadata and the best indexes it leaves
parse_meta_attrs(md, best, attr, content, pre) ==
    LET nameprop == replace_char(attr)
        value == Str(strcpy_normalize(content, pre))
        t == is_better_title(nameprop, best.title)
        b == is_better_byline(nameprop, best.byline)
        e == is_better_excerpt(nameprop, best.excerpt)
    IN  IF content = <<>> THEN [md |-> md, best |-> best]
        ELSE IF t >= 0
        THEN [md |-> [md EXCEPT !.title = value],
              best |-> [best EXCEPT !.title = t]]
        ELSE IF b >= 0
        THEN [md |-> [md EXCEPT !.byline = value],
              best |-> [best EXCEPT !.byline = b]]
        ELSE IF e >= 0
        THEN [md |-> [md EXCEPT !.excerpt = value],
              best |-> [best EXCEPT !.excerpt = e]]
        ELSE IF word_in_str(nameprop, "og:site_name")
        THEN [md |-> [md EXCEPT !.site_name = value], best |-> best]
        ELSE [md |-> md, best |-> best]

\* node_extract_metadata() on a <meta>: the property decides when it matches
\* its pattern, the name is looked at otherwise
node_extract_metadata(md, best, node, pre) ==
    IF property_re(node.property)
    THEN parse_meta_attrs(md, best, node.property, node.content, pre)
    ELSE IF name_re(node.name)
    THEN parse_meta_attrs(md, best, node.name, node.content, pre)
    ELSE [md |-> md, best |-> best]

\* ---- The title fallback: get_article_title()

Pipe == 124
Colon == 58

\* static const char *SEPARATORS = "|-\\/>»", byte by byte
SEPARATORS == <<124, 45, 92, 47, 62, 194, 187>>

\* strchr(SEPARATORS, b) for a byte other than the terminator
IsSeparator(b) == \E k \in 1..Len(SEPARATORS) : SEPARATORS[k] = b

\* for (; isspace(*str); ++str);
RECURSIVE SkipIsspace(_, _)
SkipIsspace(str, i) ==
    IF isspace(SrcAt(str, i)) THEN SkipIsspace(str, i + 1) ELSE i

\* for (; *str && strchr(SEPARATORS, *str); ++str);
RECURSIVE SkipSeparators(_, _)
SkipSeparators(str, i) ==
    IF SrcAt(str, i) # NUL /\ IsSeparator(SrcAt(str, i))
    THEN SkipSeparators(str, i + 1) ELSE i

\* The loop that steps over one word, in either mode
RECURSIVE SkipWord(_, _, _)
SkipWord(str, i, separators_are_spaces) ==
    IF /\ SrcAt(str, i) # NUL
       /\ ~isspace(SrcAt(str, i))
       /\ ~(separators_are_spaces /\ IsSeparator(SrcAt(str, i)))
    THEN SkipWord(str, i + 1, separators_are_spaces) ELSE i

\* The while (true) loop of word_count()
RECURSIVE WordCountFrom(_, _, _, _)
WordCountFrom(str, i, separators_are_spaces, count) ==
    LET i1 == SkipIsspace(str, i)
        i2 == IF separators_are_spaces THEN SkipSeparators(str, i1) ELSE i1
    IN  IF SrcAt(str, i2) = NUL THEN count
        ELSE WordCountFrom(str, SkipWord(str, i2, separators_are_spaces),
                           separators_are_spaces, count + 1)

word_count(str, separators_are_spaces) ==
    WordCountFrom(str, 1, separators_are_spaces, 0)

\* find_first_separator(str) for the string that starts at index start: the
\* index of the first separator byte after the start that has a space on
\* both sides, or 0
find_first_separator(str, start) ==
    LET found == {p \in (start + 1)..Len(str) :
                    /\ IsSeparator(str[p])
                    /\ SrcAt(str, p - 1) = SP
                    /\ SrcAt(str, p + 1) = SP}
    IN  IF found = {} THEN 0
        ELSE CHOOSE p \in found : \A q \in found : p <= q

\* The loop of find_last_separator()
RECURSIVE LastSeparatorFrom(_, _, _)
LastSeparatorFrom(str, curr, sep) ==
    LET next == find_first_separator(str, curr)
    IN  IF next = 0 THEN sep ELSE LastSeparatorFrom(str, next, next)

find_last_separator(str) == LastSeparatorFrom(str, 1, 0)

\* strrchr(title, ':'): the index of the last colon, or 0
LastColon(str) ==
    LET found == {p \in 1..Len(str) : str[p] = Colon}
    IN  IF found = {} THEN 0
        ELSE CHOOSE p \in found : \A q \in found : q <= p

\* The test that throws the shortened title away
ShortTitleNeverReverts(title_count, orig_count, sep) == FALSE

ShortTitleReverts(title_count, orig_count, sep) ==
    title_count <= 4 /\ (sep = 0 \/ title_count # orig_count - 1)

\* get_article_title() on the text of the title node; heading tells whether
\* some h1 or h2 of the document has exactly the normalized title as content
get_article_title(text, pre, heading) ==
    LET original == strcpy_normalize(text, pre)
        sep == find_last_separator(original)
        substr == LastColon(original)
        title == IF sep # 0 THEN SubSeq(original, 1, sep - 2)
                 ELSE IF substr # 0
                 THEN SubSeq(original, substr + 1, Len(original))
                 ELSE original
    IN  IF sep = 0 /\ substr # 0 /\ heading THEN original
        ELSE IF ShortTitleReverts(word_count(title, FALSE),
                                  word_count(original, TRUE), sep)
        THEN original
        ELSE title

\* ---- The documents walked

WordThe == <<84, 104, 101>>
WordReal == <<82, 101, 97, 108>>
WordTitle == <<84, 105, 116, 108, 101>>
WordExample == <<69, 120, 97, 109, 112, 108, 101>>
WordSite == <<83, 105, 116, 101>>

\* "The Real Title"
TheRealTitle == WordThe \o <<SP>> \o WordReal \o <<SP>> \o WordTitle

\* "The Real Title | Example Site"
TitleWithSite ==
    TheRealTitle \o <<SP, Pipe, SP>> \o WordExample \o <<SP>> \o WordSite

\* "a b a b a | b": five words before the separator
LongTitleWithSite ==
    <<ByteA, SP, ByteB, SP, ByteA, SP, ByteB, SP, ByteA, SP, Pipe, SP, ByteB>>

\* "b: a"
TitleAfterColon == <<ByteB, Colon, SP, ByteA>>

TitleTexts == {TitleWithSite, LongTitleWithSite, TitleAfterColon, <<ByteA>>}

\* The content attributes: empty, two plain ones, one that normalization
\* changes
MetaContents == {<<>>, <<ByteA>>, <<ByteB, SP, TAB>>}

PropertyKeys == {<<"dc:title">>, <<"og:title">>, <<"og:description">>, <<"title">>}
NameKeys == {<<"title">>, <<"author">>, <<"description">>, <<"dc.creator">>}

MetaNodes ==
    {[tag |-> "meta", property |-> k, name |-> <<>>, content |-> c] :
        k \in PropertyKeys, c \in MetaContents}
    \cup
    {[tag |-> "meta", property |-> <<>>, name |-> k, content |-> c] :
        k \in NameKeys, c \in MetaContents}

TitleNodes ==
    {[tag |-> "title", property |-> <<>>, name |-> <<>>, content |-> t] :
        t \in TitleTexts}

MetaInit ==
    /\ mseen = <<>>
    /\ metadata = [title |-> NullStr, byline |-> NullStr,
                   excerpt |-> NullStr, site_name |-> NullStr]
    /\ best_i = [title |-> Len(titlenames), byline |-> Len(authornames),
                 excerpt |-> Len(excerptnames)]
    /\ titlenode = NullStr
    /\ mpc = "walk"

\* run_on_nodes(doc, node_extract_metadata) reaches a <meta>
VisitMeta ==
    /\ mpc = "walk"
    /\ Len(mseen) < MaxMetaNodes
    /\ \E node \in MetaNodes, pre \in PreBytes :
        LET r == node_extract_metadata(metadata, best_i, node, pre)
        IN  /\ metadata' = r.md
            /\ best_i' = r.best
            /\ mseen' = Append(mseen, node)
    /\ UNCHANGED <<titlenode, mpc, loopVars, normVars, readVars, parseVars, procVars, prepVars, restVars>>

\* run_on_nodes(doc, node_extract_metadata) reaches a <title>
VisitTitle ==
    /\ mpc = "walk"
    /\ Len(mseen) < MaxMetaNodes
    /\ \E node \in TitleNodes :
        /\ titlenode' = Str(node.content)
        /\ mseen' = Append(mseen, node)
    /\ UNCHANGED <<metadata, best_i, mpc, loopVars, normVars, readVars, parseVars, procVars, prepVars, restVars>>

\* The walk is over: get_article_metadata() falls back on the title node
TitleFallback ==
    /\ mpc = "walk"
    /\ \E heading \in BOOLEAN, pre \in PreBytes :
        metadata' =
            IF metadata.title.null /\ ~titlenode.null
            THEN [metadata EXCEPT
                    !.title = Str(get_article_title(titlenode.s, pre, heading))]
            ELSE metadata
    /\ mpc' = "done"
    /\ UNCHANGED <<mseen, best_i, titlenode, loopVars, normVars, readVars, parseVars, procVars, prepVars, restVars>>

MetaNext == VisitMeta \/ VisitTitle \/ TitleFallback

(***************************************************************************)
(* Documents as trees, and the iterators over them                         *)
(*                                                                         *)
(* A tree is the sequence of its nodes in document order, each with its    *)
(* depth; the root element is node 1 at depth 0 and 0 stands for NULL.     *)
(***************************************************************************)

\* The last node of the subtree of node i
RECURSIVE SubtreeEnd(_, _, _)
SubtreeEnd(t, i, j) ==
    IF j < Len(t) /\ t[j + 1].depth > t[i].depth
    THEN SubtreeEnd(t, i, j + 1) ELSE j

\* node->parent; the parent of the root element is the document, which has
\* neither a sibling nor a parent
Parent(t, i) ==
    IF i <= 1 THEN 0
    ELSE CHOOSE j \in 1..(i - 1) :
            /\ t[j].depth = t[i].depth - 1
            /\ \A k \in (j + 1)..(i - 1) : t[k].depth >= t[i].depth

\* skip_node_descendants(): the next sibling of the node or of its nearest
\* ancestor that has one
skip_node_descendants(t, i) ==
    IF i = 0 \/ SubtreeEnd(t, i, i) = Len(t) THEN 0
    ELSE SubtreeEnd(t, i, i) + 1

\* following_node(): the first child, or else skip_node_descendants()
following_node(t, i) ==
    IF i < Len(t) /\ t[i + 1].depth > t[i].depth THEN i + 1
    ELSE skip_node_descendants(t, i)

\* first_node(): following_node(xmlDocGetRootElement(doc))
first_node(t) == following_node(t, 1)

\* has_ancestor_tag()
has_ancestor_tag(t, i, tag) ==
    \E j \in 1..(i - 1) : t[j].tag = tag /\ SubtreeEnd(t, j, j) >= i

(***************************************************************************)
(* is_probably_readerable()                                                *)
(***************************************************************************)

MaxDocNodes == 3

\* An element: its tag, its depth, the length of the text it holds directly
\* (letters only), whether it is hidden (is_node_visible() fails) and whether
\* its class or id is unlikely (node_has_unlikely_class_id())
Elem(tag, text, hidden, unlikely) ==
    [tag |-> tag, depth |-> 0, text |-> text, hidden |-> hidden,
     unlikely |-> unlikely]

ReadKinds ==
    {Elem("div", x, FALSE, FALSE) : x \in {0, 340, 600}}
    \cup {Elem("p", x, FALSE, FALSE) : x \in {100, 340, 600}}
    \cup {Elem("p", 600, TRUE, FALSE), Elem("p", 600, FALSE, TRUE),
          Elem("pre", 340, FALSE, FALSE), Elem("br", 0, FALSE, FALSE),
          Elem("li", 0, FALSE, FALSE)}

\* The depths a node may take when it comes right after node i of t without
\* taking any node as its child: a <br> has no children
DepthsAfter(t, i) ==
    1..(IF t[i].tag = "br" THEN t[i].depth ELSE t[i].depth + 1)

\* The documents with at most n elements under the root
RECURSIVE DocsUpTo(_)
DocsUpTo(n) ==
    IF n = 0 THEN {<<Elem("html", 0, FALSE, FALSE)>>}
    ELSE LET prev == DocsUpTo(n - 1)
         IN  prev \cup UNION {
                 {Append(t, [k EXCEPT !.depth = d]) :
                     k \in ReadKinds, d \in DepthsAfter(t, Len(t))} :
                 t \in prev}

\* The largest r in lo..hi with r * r <= x
RECURSIVE IsqrtBetween(_, _, _)
IsqrtBetween(x, lo, hi) ==
    IF lo >= hi THEN lo
    ELSE LET mid == (lo + hi + 1) \div 2
         IN  IF mid * mid <= x THEN IsqrtBetween(x, mid, hi)
             ELSE IsqrtBetween(x, lo, mid - 1)

\* sqrt(n) in hundredths, rounded down. The text lengths used are such that
\* no sum of scores comes within a tenth of 20 without being exactly 20, so
\* comparing the sum of the rounded scores with 20 gives what comparing the
\* sum of the square roots gives.
Sqrt100(n) == IsqrtBetween(n * 10000, 0, 46340)

\* text_content_length(): the text of the node and of its descendants
RECURSIVE SumText(_, _, _)
SumText(t, i, j) == IF i > j THEN 0 ELSE t[i].text + SumText(t, i + 1, j)

text_content_length(t, i) == SumText(t, i, SubtreeEnd(t, i, i))

is_node_paragraph_in_list(t, i) ==
    t[i].tag = "p" /\ has_ancestor_tag(t, i, "li")

\* node_score(), in hundredths
node_score_bounded(t, i) ==
    IF t[i].hidden \/ t[i].unlikely \/ is_node_paragraph_in_list(t, i) THEN 0
    ELSE IF text_content_length(t, i) < 140 THEN 0
    ELSE IF text_content_length(t, i) >= 800 THEN 0
    ELSE Sqrt100(text_content_length(t, i) - 140)

node_score(t, i) ==
    IF t[i].hidden THEN 0
    ELSE IF t[i].unlikely THEN 0
    ELSE IF is_node_paragraph_in_list(t, i) THEN 0
    ELSE IF text_content_length(t, i) < 140 THEN 0
    ELSE Sqrt100(text_content_length(t, i) - 140)

\* The tags scored on their own
ScoredTagsWithDiv == {"p", "pre", "div"}

ScoredTags == {"p", "pre"}

\* The loop of is_probably_readerable() from node i on with the score so
\* far; early tells whether the loop returns as soon as the score exceeds 20.
\* The result is the verdict and the score reached.
RECURSIVE ReaderableWalk(_, _, _, _)
ReaderableWalk(t, i, score, early) ==
    IF i = 0 THEN [verdict |-> FALSE, score |-> score]
    ELSE IF t[i].tag \in ScoredTags
    THEN LET sc == score + node_score(t, i)
         IN  IF early /\ sc > 2000 THEN [verdict |-> TRUE, score |-> sc]
             ELSE ReaderableWalk(t, following_node(t, i), sc, early)
    ELSE IF t[i].tag = "br" /\ t[Parent(t, i)].tag = "div"
    THEN LET sc == score + node_score(t, Parent(t, i))
         IN  IF early /\ sc > 2000 THEN [verdict |-> TRUE, score |-> sc]
             ELSE ReaderableWalk(t, skip_node_descendants(t, Parent(t, i)),
                                 sc, early)
    ELSE ReaderableWalk(t, following_node(t, i), score, early)

is_probably_readerable(t) == ReaderableWalk(t, first_node(t), 0, TRUE).verdict

\* t with a new leaf placed at index k
InsertLeaf(t, k, node) ==
    SubSeq(t, 1, k - 1) \o <<node>> \o SubSeq(t, k, Len(t))

ReadInit ==
    /\ rdoc \in DocsUpTo(MaxDocNodes)
    /\ rverdict = FALSE
    /\ rdoc2 = <<>>
    /\ rverdict2 = FALSE
    /\ rpc = "start"

\* rdrview --check on the document
CheckDoc ==
    /\ rpc = "start"
    /\ rverdict' = is_probably_readerable(rdoc)
    /\ rpc' = "checked"
    /\ UNCHANGED <<rdoc, rdoc2, rverdict2, loopVars, normVars, metaVars, parseVars, procVars, prepVars, restVars>>

\* The document gets one more <p> with 200 letters, as a new leaf anywhere
InsertP ==
    /\ rpc = "checked"
    /\ \E k \in 2..(Len(rdoc) + 1) :
        \E d \in DepthsAfter(rdoc, k - 1) :
            /\ k <= Len(rdoc) => rdoc[k].depth <= d
            /\ rdoc2' = InsertLeaf(rdoc, k,
                    [Elem("p", 200, FALSE, FALSE) EXCEPT !.depth = d])
    /\ rpc' = "inserted"
    /\ UNCHANGED <<rdoc, rverdict, rverdict2, loopVars, normVars, metaVars, parseVars, procVars, prepVars, restVars>>

\* rdrview --check on the larger document
CheckAgain ==
    /\ rpc = "inserted"
    /\ rverdict2' = is_probably_readerable(rdoc2)
    /\ rpc' = "rechecked"
    /\ UNCHANGED <<rdoc, rverdict, rdoc2, loopVars, normVars, metaVars, parseVars, procVars, prepVars, restVars>>

ReadNext == CheckDoc \/ InsertP \/ CheckAgain

(***************************************************************************)
(* parse(): one extraction over a DOM tree                                 *)
(*                                                                         *)
(* What the text of the document decides (the scores, which nodes look     *)
(* like share buttons or fishy blocks, how long the article is) is chosen  *)
(* by the environment; what the tags and the attributes decide is          *)
(* computed. One iteration of the loop of grab_article() is followed; the  *)
(* attempt that get_best_attempt() returns is the result of one of them.   *)
(***************************************************************************)

MaxBodyNodes == 3

\* An attribute value that videos_re matches
VideoUrl == "//www.youtube.com/embed/x"

PageId == "readability-page-1"

PageClass == "page"

\* An element of the input: its tag, its depth, its identity (nid, its
\* position in the input), its id attribute, the tokens of its class
\* attribute and the value of one more attribute such as src or value
\* ("" and <<>> stand for a missing attribute)
PNode(tag, id, class, src) ==
    [tag |-> tag, depth |-> 0, nid |-> 0, origin |-> "input",
     id |-> id, class |-> class, src |-> src]

\* The <div> that xmlNewNode() returns to the function named by origin
NewDiv(origin, depth) ==
    [tag |-> "div", depth |-> depth, nid |-> 0, origin |-> origin,
     id |-> "", class |-> <<>>, src |-> ""]

ParseKinds ==
    {PNode(tag, "", <<>>, "") :
        tag \in {"script", "h1", "input", "iframe", "object", "div", "p"}}
    \cup {PNode("input", "", <<>>, VideoUrl),
          PNode("iframe", "", <<>>, VideoUrl),
          PNode("iframe", "", <<VideoUrl>>, ""),
          PNode("div", PageId, <<PageClass>>, "")}

\* The tags of the elements that are given no children
ParseLeaves == {"script", "input", "iframe"}

\* <html><body> with at most n elements inside the body
RECURSIVE BodiesUpTo(_)
BodiesUpTo(n) ==
    IF n = 0
    THEN {<<PNode("html", "", <<>>, ""),
            [PNode("body", "", <<>>, "") EXCEPT !.depth = 1]>>}
    ELSE LET prev == BodiesUpTo(n - 1)
         IN  prev \cup UNION {
                 {Append(t, [k EXCEPT !.depth = d]) :
                     k \in ParseKinds,
                     d \in 2..(IF t[Len(t)].tag \in ParseLeaves
                               THEN t[Len(t)].depth
                               ELSE t[Len(t)].depth + 1)} :
                 t \in prev}

\* Every element gets its position as its identity
Numbered(t) == [i \in 1..Len(t) |-> [t[i] EXCEPT !.nid = i]]

\* The input documents: <html></html>, <html><head></head></html> and the
\* documents with a body
ParseDocs ==
    {Numbered(t) : t \in
        {<<PNode("html", "", <<>>, "")>>,
         <<PNode("html", "", <<>>, ""),
           [PNode("head", "", <<>>, "") EXCEPT !.depth = 1]>>}
        \cup BodiesUpTo(MaxBodyNodes)}

\* xmlUnlinkNode() and free_node() of node i: the tree without its subtree
RemoveSubtree(t, i) ==
    SubSeq(t, 1, i - 1) \o SubSeq(t, SubtreeEnd(t, i, i) + 1, Len(t))

\* The subtree of node i, with its root at the given depth
SubtreeAt(t, i, depth) ==
    [k \in 1..(SubtreeEnd(t, i, i) - i + 1) |->
        [t[i + k - 1] EXCEPT !.depth = @ - t[i].depth + depth]]

\* remove_descendants_if() from node i on, for a condition that holds for
\* the elements with a tag in tags or an identity in nids
RECURSIVE RemoveIfFrom(_, _, _, _)
RemoveIfFrom(t, i, tags, nids) ==
    IF i = 0 \/ i > Len(t) THEN t
    ELSE IF t[i].tag \in tags \/ (t[i].origin = "input" /\ t[i].nid \in nids)
         THEN RemoveIfFrom(RemoveSubtree(t, i), i, tags, nids)
         ELSE RemoveIfFrom(t, following_node(t, i), tags, nids)

remove_descendants_if(t, tags, nids) ==
    RemoveIfFrom(t, following_node(t, 1), tags, nids)

\* Whether the node is an element, and not a text node or a comment
IsElement(n) == n.tag \notin {"#text", "#comment"}

\* node->next
NextSibling(t, i) ==
    LET e == SubtreeEnd(t, i, i) + 1
    IN  IF e <= Len(t) /\ t[e].depth = t[i].depth THEN e ELSE 0

\* The loop of next_element() from sibling n on
RECURSIVE NextElementFrom(_, _)
NextElementFrom(t, n) ==
    IF n = 0 THEN 0
    ELSE IF IsElement(t[n]) THEN n
    ELSE IF text_content_length(t, n) # 0 THEN 0
    ELSE NextElementFrom(t, NextSibling(t, n))

next_element_strict(t, i) ==
    IF NextSibling(t, i) # 0 /\ IsElement(t[NextSibling(t, i)])
    THEN NextSibling(t, i) ELSE 0

\* next_element(): the next sibling that is an element, unless a text with
\* content comes first
next_element(t, i) == NextElementFrom(t, NextSibling(t, i))

is_double_br(t, n) ==
    /\ t[n].tag = "br"
    /\ next_element(t, n) # 0
    /\ t[next_element(t, n)].tag = "br"

PHRASING_ELEMS ==
    {"abbr", "audio", "b", "bdo", "br", "button", "cite", "code", "data",
     "datalist", "dfn", "em", "embed", "i", "img", "input", "kbd", "label",
     "mark", "math", "meter", "noscript", "object", "output", "progress",
     "q", "ruby", "samp", "script", "select", "small", "span", "strong",
     "sub", "sup", "textarea", "time", "var", "wbr"}

\* is_phrasing_content()
is_phrasing_content(t, n) ==
    \/ t[n].tag = "#text"
    \/ t[n].tag \in PHRASING_ELEMS
    \/ /\ t[n].tag \in {"a", "del", "ins"}
       /\ \A k \in (n + 1)..SubtreeEnd(t, n, n) :
            t[k].tag \in {"#text", "a", "del", "ins"} \cup PHRASING_ELEMS

\* is_whitespace()
is_whitespace(t, n) ==
    \/ t[n].tag = "#text" /\ text_content_length(t, n) = 0
    \/ t[n].tag = "br"

\* replace_brs(): the <br> elements that follow node i are removed
RECURSIVE RemoveNextBrs(_, _)
RemoveNextBrs(t, i) ==
    LET next == next_element(t, i)
    IN  IF next # 0 /\ t[next].tag = "br"
        THEN RemoveNextBrs(RemoveSubtree(t, next), i) ELSE t

\* replace_brs(): the siblings that follow the new <p> become its children,
\* up to the next <br><br> or the next node that is not phrasing content
RECURSIVE AdoptSiblings(_, _)
AdoptSiblings(t, i) ==
    LET next == NextSibling(t, i)
    IN  IF next = 0 \/ is_double_br(t, next) \/ ~is_phrasing_content(t, next)
        THEN t
        ELSE AdoptSiblings(
                [k \in 1..Len(t) |->
                    IF k \in next..SubtreeEnd(t, next, next)
                    THEN [t[k] EXCEPT !.depth = @ + 1] ELSE t[k]], i)

\* xmlGetLastChild() (0: no child)
LastChild(t, i) ==
    IF SubtreeEnd(t, i, i) = i THEN 0
    ELSE CHOOSE c \in (i + 1)..SubtreeEnd(t, i, i) :
            t[c].depth = t[i].depth + 1
            /\ SubtreeEnd(t, c, c) = SubtreeEnd(t, i, i)

RECURSIVE prune_trailing_whitespace(_, _)
prune_trailing_whitespace(t, i) ==
    IF LastChild(t, i) # 0 /\ is_whitespace(t, LastChild(t, i))
    THEN prune_trailing_whitespace(RemoveSubtree(t, LastChild(t, i)), i)
    ELSE t

\* replace_brs() on node i
replace_brs(t, i) ==
    IF t[i].tag # "br" THEN t
    ELSE LET t1 == RemoveNextBrs(t, i)
         IN  IF Len(t1) = Len(t) THEN t
             ELSE LET t2 == [t1 EXCEPT ![i].tag = "p"]
                      t3 == prune_trailing_whitespace(AdoptSiblings(t2, i), i)
                      parent == Parent(t3, i)
                  IN  IF parent # 0 /\ t3[parent].tag = "p"
                      THEN [t3 EXCEPT ![parent].tag = "div"] ELSE t3

\* run_on_nodes(doc, replace_brs) from node i on
RECURSIVE ReplaceBrsFrom(_, _)
ReplaceBrsFrom(t, i) ==
    IF i = 0 THEN t
    ELSE ReplaceBrsFrom(replace_brs(t, i), following_node(replace_brs(t, i), i))

\* prep_document(): the <style> elements go and the runs of <br> become
\* paragraphs (no document here has a <font>)
prep_document(t) ==
    LET t1 == remove_descendants_if(t, {"style"}, {})
    IN  ReplaceBrsFrom(t1, first_node(t1))

\* node->prev
PrevSibling(t, i) ==
    IF \E j \in 1..(i - 1) : NextSibling(t, j) = i
    THEN CHOOSE j \in 1..(i - 1) : NextSibling(t, j) = i ELSE 0

\* The loop of prev_element() from sibling n back
RECURSIVE PrevElementFrom(_, _)
PrevElementFrom(t, n) ==
    IF n = 0 THEN 0
    ELSE IF IsElement(t[n]) THEN n
    ELSE IF text_content_length(t, n) # 0 THEN 0
    ELSE PrevElementFrom(t, PrevSibling(t, n))

\* prev_element(): the previous sibling that is an element, unless a text
\* with content comes first
prev_element(t, i) == PrevElementFrom(t, PrevSibling(t, i))

\* get_single_image(): whether the node is an image or holds exactly one
\* image and no text. A <noscript> is kept as one node, which stands for
\* the element and the single image inside it while its src is set
RECURSIVE get_single_image(_, _)
get_single_image(t, n) ==
    LET elems == {c \in (n + 1)..SubtreeEnd(t, n, n) :
                    t[c].depth = t[n].depth + 1 /\ IsElement(t[c])}
        texts == {c \in (n + 1)..SubtreeEnd(t, n, n) :
                    t[c].depth = t[n].depth + 1 /\ ~IsElement(t[c])}
    IN  IF t[n].tag = "img" THEN TRUE
        ELSE IF t[n].tag = "noscript" THEN t[n].src # ""
        ELSE /\ Cardinality(elems) = 1
             /\ \A c \in texts : t[c].text = 0
             /\ get_single_image(t, CHOOSE c \in elems : TRUE)

\* unwrap_if_noscript_image(): the image of the <noscript> takes the place
\* of the previous element when that one holds a single image
unwrap_if_noscript_image(t, i) ==
    LET prev == prev_element(t, i)
    IN  IF t[i].tag = "noscript" /\ get_single_image(t, i)
           /\ prev # 0 /\ get_single_image(t, prev)
        THEN SubSeq(t, 1, prev - 1)
             \o <<[t[i] EXCEPT !.tag = "img", !.depth = t[prev].depth]>>
             \o SubSeq(t, SubtreeEnd(t, prev, prev) + 1, i - 1)
             \o <<[t[i] EXCEPT !.src = ""]>>
             \o SubSeq(t, i + 1, Len(t))
        ELSE t

\* run_on_nodes(doc, unwrap_if_noscript_image) from node i on; the nodes
\* that an unwrapping removes lie before node i
RECURSIVE UnwrapFrom(_, _)
UnwrapFrom(t, i) ==
    IF i > Len(t) THEN t
    ELSE LET t1 == unwrap_if_noscript_image(t, i)
         IN  UnwrapFrom(t1, i - (Len(t) - Len(t1)) + 1)

\* unwrap_noscript_images(): the placeholder images, which have no source,
\* go first
unwrap_noscript_images(t) ==
    LET is_image_placeholder(n) == n.tag = "img" /\ n.src = ""
    IN  UnwrapFrom(SelectSeq(t, LAMBDA n : ~is_image_placeholder(n)), 1)

\* parse() up to get_article_metadata(): the comments go, the images of
\* the <noscript> elements are unwrapped, the <script> and <noscript>
\* elements go, then prep_document()
PreparedDoc(t) ==
    prep_document(
        remove_descendants_if(
            unwrap_noscript_images(
                remove_descendants_if(t, {"#comment"}, {})),
            {"script", "noscript"}, {}))

\* regex_matches(&videos_re, value)
videos_re(value) == value = VideoUrl

\* Whether an attribute of the element matches videos_re
AttrHasVideo(n) ==
    \/ videos_re(n.src)
    \/ videos_re(n.id)
    \/ \E k \in 1..Len(n.class) : videos_re(n.class[k])

is_embed(n) == n.tag \in {"object", "embed", "iframe"}

\* is_embed_with_video(): an attribute matches or, for <object>, the
\* serialized element does
is_embed_with_video(t, i) ==
    /\ is_embed(t[i])
    /\ \/ AttrHasVideo(t[i])
       \/ /\ t[i].tag = "object"
          /\ \E j \in i..SubtreeEnd(t, i, i) : AttrHasVideo(t[j])

has_tag_not_video_embed_any(t, i, tag) ==
    t[i].tag = tag /\ ~is_embed(t[i])

has_tag_not_video_embed(t, i, tag) ==
    t[i].tag = tag /\ ~is_embed_with_video(t, i)

\* bw_remove_descendants_if(article, has_tag_not_video_embed, tag) from node
\* i back to the article; s.kept collects the embeds seen to hold a video
RECURSIVE CleanAllFrom(_, _, _)
CleanAllFrom(s, i, tag) ==
    IF i <= 1 THEN s
    ELSE LET t == s.tree
             seen == IF t[i].tag = tag /\ is_embed_with_video(t, i)
                     THEN s.kept \cup {t[i].nid} ELSE s.kept
         IN  IF has_tag_not_video_embed(t, i, tag)
             THEN CleanAllFrom([tree |-> RemoveSubtree(t, i), kept |-> seen],
                               i - 1, tag)
             ELSE CleanAllFrom([tree |-> t, kept |-> seen], i - 1, tag)

clean_all(s, tag) == CleanAllFrom(s, Len(s.tree), tag)

\* clean_all() for each tag of a list, in order
RECURSIVE CleanAllTags(_, _)
CleanAllTags(s, tags) ==
    IF tags = <<>> THEN s
    ELSE CleanAllTags(clean_all(s, Head(tags)), Tail(tags))

\* is_extra_paragraph() for a paragraph without text
is_extra_paragraph(t, i) ==
    /\ t[i].tag = "p"
    /\ \A j \in (i + 1)..SubtreeEnd(t, i, i) :
            t[j].tag \notin {"img", "embed", "object", "iframe"}

\* The identities of the nodes for which a check that depends on the text
\* holds: the element junk (0: none) when the check is the one named by how
JunkFor(t, junk, how, check) ==
    IF how # check THEN {}
    ELSE {t[i].nid : i \in {j \in 2..Len(t) :
            /\ t[j].origin = "input"
            /\ t[j].nid = junk
            /\ check = "clean_conditionally" => t[j].tag = "div"
            /\ check = "is_extra_paragraph" => is_extra_paragraph(t, j)}}

\* prep_article(): the article and the embeds seen to hold a video
prep_article(article, junk, how) ==
    LET s1 == CleanAllTags([tree |-> article, kept |-> {}],
                  <<"object", "embed", "h1", "footer", "link", "aside">>)
        t2 == remove_descendants_if(s1.tree, {},
                  JunkFor(s1.tree, junk, how, "is_small_share_node"))
        s3 == CleanAllTags([tree |-> t2, kept |-> s1.kept],
                  <<"iframe", "input", "textarea", "select", "button">>)
        t4 == remove_descendants_if(s3.tree, {},
                  JunkFor(s3.tree, junk, how, "clean_conditionally"))
        t5 == remove_descendants_if(t4, {},
                  JunkFor(t4, junk, how, "is_extra_paragraph"))
    IN  [tree |-> t5, kept |-> s3.kept]

\* get_body(): the child of the root element with tag body (0: none, and
\* the program exits with "document has no body tag")
get_body(t) ==
    IF \E i \in 2..Len(t) : t[i].depth = 1 /\ t[i].tag = "body"
    THEN CHOOSE i \in 2..Len(t) :
            /\ t[i].depth = 1 /\ t[i].tag = "body"
            /\ \A j \in 2..(i - 1) : ~(t[j].depth = 1 /\ t[j].tag = "body")
    ELSE 0

\* top_candidate_from_all(): a new <div> takes the children of the body and
\* becomes its only child
top_candidate_from_all(t) ==
    LET body == get_body(t)
        last == SubtreeEnd(t, body, body)
    IN  SubSeq(t, 1, body)
        \o <<NewDiv("top_candidate_from_all", 2)>>
        \o [k \in 1..(last - body) |->
                [t[body + k] EXCEPT !.depth = @ + 1]]
        \o SubSeq(t, last + 1, Len(t))

\* The nodes find_top_candidate() can return: initialize_node() is only run
\* on the ancestors of a node to score (a paragraph, or a <div> turned into
\* one) whose parent is an element, and neither find_top_candidate() nor
\* find_better_top_candidate() returns the body
TopCandidates(t) ==
    {i \in 2..Len(t) :
        /\ t[i].depth >= 1
        /\ t[i].tag # "body"
        /\ \E j \in (i + 1)..SubtreeEnd(t, i, i) : t[j].tag \in {"p", "div"}}

\* append_content(): the node joins the article, as a <div> unless it is a
\* common block element
append_content(content, t, i) ==
    LET sub == SubtreeAt(t, i, 1)
        tag == IF t[i].tag \in {"div", "article", "section", "p"}
               THEN t[i].tag ELSE "div"
    IN  content \o [sub EXCEPT ![1].tag = tag]

\* The loop of gather_related_content() from child i of the parent on;
\* related holds the siblings whose score or text lets them in
RECURSIVE GatherFrom(_, _, _, _, _)
GatherFrom(content, t, i, top, related) ==
    IF i = 0 \/ i > Len(t) \/ t[i].depth # t[top].depth THEN content
    ELSE GatherFrom(IF i = top \/ i \in related
                    THEN append_content(content, t, i) ELSE content,
                    t, SubtreeEnd(t, i, i) + 1, top, related)

gather_related_content(t, top, related) ==
    GatherFrom(<<NewDiv("gather_related_content", 0)>>, t,
               Parent(t, top) + 1, top, related)

\* The siblings of a node
Siblings(t, i) ==
    {j \in 2..Len(t) : j # i /\ Parent(t, j) = Parent(t, i)}

\* set_main_div_attrs()
set_main_div_attrs(n) == [n EXCEPT !.id = PageId, !.class = <<PageClass>>]

\* create_main_div(): a new <div> takes the children of the article
create_main_div(article) ==
    <<article[1], set_main_div_attrs(NewDiv("create_main_div", 1))>>
    \o [k \in 1..(Len(article) - 1) |->
            [article[k + 1] EXCEPT !.depth = @ + 1]]

\* clean_classes(): the class attribute goes, unless "page" is one of its
\* tokens, and then it becomes "page"
clean_classes(n) ==
    [n EXCEPT !.class = IF \E k \in 1..Len(@) : @[k] = PageClass
                        THEN <<PageClass>> ELSE <<>>]

\* parse(doc) starts on an input document
ParseInit ==
    /\ pdoc \in ParseDocs
    /\ pchildless = (Len(pdoc) = 1)
    /\ ptop = 0
    /\ ptopnew = FALSE
    /\ part = <<>>
    /\ pkept = {}
    /\ pret = <<>>
    /\ pout = "running"
    /\ ppc = "parse"

\* parse() down to the call of grab_article()
PrepareDocument ==
    /\ ppc = "parse"
    /\ pdoc' = PreparedDoc(pdoc)
    /\ ppc' = "grab"
    /\ UNCHANGED <<pchildless, ptop, ptopnew, part, pkept, pret, pout,
                   loopVars, normVars, metaVars, readVars, procVars, prepVars, restVars>>

\* grab_article() down to the choice of the top candidate. The first loop
\* removes the nodes with no_need_to_score(): here, at most one subtree.
\* Over a root element left without descendants run_on_nodes() returns NULL,
\* which find_top_candidate() reads through: the read faults, or it goes
\* through and the program carries on without a candidate.
FindTopCandidate ==
    /\ ppc = "grab"
    /\ \E strip \in {0} \cup 2..Len(pdoc) :
        LET t == IF strip = 0 THEN pdoc ELSE RemoveSubtree(pdoc, strip)
        IN  \E top \in {0} \cup TopCandidates(t) :
            \E faults \in BOOLEAN :
                IF first_node(t) = 0 /\ faults
                THEN /\ pout' = "sigsegv"
                     /\ ppc' = "exit"
                     /\ UNCHANGED <<pdoc, ptop, ptopnew, procVars, prepVars, restVars>>
                ELSE IF top # 0
                THEN /\ pdoc' = t
                     /\ ptop' = top
                     /\ ptopnew' = FALSE
                     /\ ppc' = "gather"
                     /\ UNCHANGED pout
                ELSE IF get_body(t) = 0
                THEN /\ pout' = "no body tag"
                     /\ ppc' = "exit"
                     /\ UNCHANGED <<pdoc, ptop, ptopnew, procVars, prepVars, restVars>>
                ELSE /\ pdoc' = top_candidate_from_all(t)
                     /\ ptop' = get_body(t) + 1
                     /\ ptopnew' = TRUE
                     /\ ppc' = "gather"
                     /\ UNCHANGED pout
    /\ UNCHANGED <<pchildless, part, pkept, pret,
                   loopVars, normVars, metaVars, readVars, procVars, prepVars, restVars>>

\* article = gather_related_content(top); the working document is not
\* looked at again
GatherRelated ==
    /\ ppc = "gather"
    /\ \E related \in SUBSET Siblings(pdoc, ptop) :
            part' = gather_related_content(pdoc, ptop, related)
    /\ pdoc' = <<>>
    /\ ptop' = 0
    /\ ppc' = "prep"
    /\ UNCHANGED <<pchildless, ptopnew, pkept, pret, pout,
                   loopVars, normVars, metaVars, readVars, procVars, prepVars, restVars>>

\* prep_article(article), and the test for an article left without
\* children. The checks that depend on the text remove at most one element.
PrepArticle ==
    /\ ppc = "prep"
    /\ \E junk \in {0} \cup {part[i].nid : i \in 2..Len(part)} :
        \E how \in {"is_small_share_node", "clean_conditionally",
                    "is_extra_paragraph"} :
            LET s == prep_article(part, junk, how)
            IN  /\ part' = s.tree
                /\ pkept' = s.kept
                /\ ppc' = IF Len(s.tree) = 1 THEN "empty" ELSE "main"
    /\ UNCHANGED <<pchildless, pdoc, ptop, ptopnew, pret, pout,
                   loopVars, normVars, metaVars, readVars, procVars, prepVars, restVars>>

\* The end of the iteration: set_main_div_attrs(top) or create_main_div()
MainDiv ==
    /\ ppc = "main"
    /\ part' = IF ptopnew
               THEN [i \in 1..Len(part) |->
                        IF part[i].origin = "top_candidate_from_all"
                        THEN set_main_div_attrs(part[i]) ELSE part[i]]
               ELSE create_main_div(part)
    /\ ppc' = "attempted"
    /\ UNCHANGED <<pchildless, pdoc, ptop, ptopnew, pkept, pret, pout,
                   loopVars, normVars, metaVars, readVars, procVars, prepVars, restVars>>

\* get_best_attempt() returns this article; parse() cleans the classes of
\* its descendants and returns its first child
ReturnContent ==
    /\ ppc = "attempted"
    /\ LET cleaned == [i \in 1..Len(part) |->
                          IF i = 1 THEN part[i] ELSE clean_classes(part[i])]
       IN  pret' = SubtreeAt(cleaned, 2, 0)
    /\ pout' = "ok"
    /\ ppc' = "exit"
    /\ UNCHANGED <<pchildless, pdoc, ptop, ptopnew, part, pkept,
                   loopVars, normVars, metaVars, readVars, procVars, prepVars, restVars>>

\* No attempt has any text: get_best_attempt() returns NULL, parse() does
\* too and run_dangerous() exits with "no content could be extracted"
NoContent ==
    /\ ppc \in {"empty", "attempted"}
    /\ pout' = "no content"
    /\ ppc' = "exit"
    /\ UNCHANGED <<pchildless, pdoc, ptop, ptopnew, part, pkept, pret,
                   loopVars, normVars, metaVars, readVars, procVars, prepVars, restVars>>

ParseNext ==
    \/ PrepareDocument
    \/ FindTopCandidate
    \/ GatherRelated
    \/ PrepArticle
    \/ MainDiv
    \/ ReturnContent
    \/ NoContent

(***************************************************************************)
(* main(): the parent process, the sandboxed child and the temporary files *)
(*                                                                         *)
(* A step is what a process does between two points where a signal can    *)
(* reach it or where the other process can run. A system call and the      *)
(* store of its result are two steps.                                      *)
(***************************************************************************)

MaxRedirects == 1

STATUS_HTML_REDIRECT == 2

\* 128 + WTERMSIG(wstatus) for SIGINT and for SIGSEGV
StatusSigint == 130

StatusSigsegv == 139

\* clean_temp_filepath(): nothing when tmpdir is NULL; else both files are
\* unlinked and the directory, then empty, is removed
clean_temp_filepath(set, fs) ==
    IF set THEN fs \ {"input", "output", "dir"} ELSE fs

\* An entry of the record of what was done, by which process and, for the
\* child, with or without its sandbox loaded
Event(what, by, boxed) == [what |-> what, by |-> by, boxed |-> boxed]

start_sandbox_lenient(disabled, loads) ==
    [alive |-> TRUE, boxed |-> ~disabled /\ loads]

\* start_sandbox(): do_start_sandbox() unless the sandbox is disabled; when
\* the rules cannot be loaded the process exits through fatal_msg()
start_sandbox(disabled, loads) ==
    [alive |-> disabled \/ loads, boxed |-> ~disabled /\ loads]

\* The parent leaves through exit(): normal_term_cleanup() runs
ParentExits(how, fs) ==
    /\ files' = clean_temp_filepath(tmpdir, fs)
    /\ tmpdir' = FALSE
    /\ ended' = how
    /\ mainpc' = "ended"

\* The child leaves through exit(): its normal_term_cleanup() finds tmpdir
\* NULL
ChildExits(status) ==
    /\ childpc' = "exited"
    /\ wstatus' = status

ProcInit ==
    /\ disable_sandbox = FALSE
    /\ handlers = FALSE
    /\ mainpc = "start"
    /\ tmpdir = FALSE
    /\ ended = "running"
    /\ redirects = 0
    /\ childpc = "none"
    /\ child_tmpdir = FALSE
    /\ sandboxed = FALSE
    /\ wstatus = 0
    /\ files = {}
    /\ events = {}

SetCleanupHandlers ==
    /\ mainpc = "start"
    /\ handlers' = TRUE
    /\ mainpc' = "args"
    /\ UNCHANGED <<disable_sandbox, tmpdir, ended, redirects, childpc,
                   child_tmpdir, sandboxed, wstatus, files, events>>
    /\ UNCHANGED <<loopVars, normVars, metaVars, readVars, parseVars, prepVars, restVars>>

\* parse_arguments(): usage() exits
ParseArguments ==
    /\ mainpc = "args"
    /\ \E ok \in BOOLEAN, ds \in BOOLEAN :
        IF ok
        THEN /\ disable_sandbox' = ds
             /\ mainpc' = "mkdtemp"
             /\ UNCHANGED <<tmpdir, ended, files>>
        ELSE /\ ParentExits("exit", files)
             /\ UNCHANGED disable_sandbox
    /\ UNCHANGED <<handlers, redirects, childpc, child_tmpdir, sandboxed,
                   wstatus, events>>
    /\ UNCHANGED <<loopVars, normVars, metaVars, readVars, parseVars, prepVars, restVars>>

\* get_temp_filepath(): the mkdtemp() call creates the directory
Mkdtemp ==
    /\ mainpc = "mkdtemp"
    /\ \E ok \in BOOLEAN :
        IF ok
        THEN /\ files' = files \cup {"dir"}
             /\ mainpc' = "assign"
             /\ UNCHANGED <<tmpdir, ended>>
        ELSE ParentExits("exit", files)
    /\ UNCHANGED <<disable_sandbox, handlers, redirects, childpc,
                   child_tmpdir, sandboxed, wstatus, events>>
    /\ UNCHANGED <<loopVars, normVars, metaVars, readVars, parseVars, prepVars, restVars>>

\* get_temp_filepath(): tmpdir = the value mkdtemp() returned
AssignTmpdir ==
    /\ mainpc = "assign"
    /\ tmpdir' = TRUE
    /\ mainpc' = "fopen"
    /\ UNCHANGED <<disable_sandbox, handlers, ended, redirects, childpc,
                   child_tmpdir, sandboxed, wstatus, files, events>>
    /\ UNCHANGED <<loopVars, normVars, metaVars, readVars, parseVars, prepVars, restVars>>

\* main(): the two fopen() calls, and fatal_msg() when one of them fails
OpenTempFiles ==
    /\ mainpc = "fopen"
    /\ \E made \in {{"input", "output"}, {"input"}, {}} :
        IF made = {"input", "output"}
        THEN /\ files' = files \cup made
             /\ mainpc' = "save"
             /\ UNCHANGED <<tmpdir, ended>>
        ELSE ParentExits("exit", files \cup made)
    /\ UNCHANGED <<disable_sandbox, handlers, redirects, childpc,
                   child_tmpdir, sandboxed, wstatus, events>>
    /\ UNCHANGED <<loopVars, normVars, metaVars, readVars, parseVars, prepVars, restVars>>

\* save_input_to_file(): the bytes of the document are copied, unread
SaveInput ==
    /\ mainpc = "save"
    /\ \E ok \in BOOLEAN :
        IF ok
        THEN /\ events' = events \cup {Event("copy", "parent", FALSE)}
             /\ mainpc' = "fork"
             /\ UNCHANGED <<tmpdir, ended, files>>
        ELSE /\ ParentExits("exit", files)
             /\ UNCHANGED events
    /\ UNCHANGED <<disable_sandbox, handlers, redirects, childpc,
                   child_tmpdir, sandboxed, wstatus>>
    /\ UNCHANGED <<loopVars, normVars, metaVars, readVars, parseVars, prepVars, restVars>>

\* fork_and_run_dangerous() down to fork(): the child starts as a copy
Fork ==
    /\ mainpc = "fork"
    /\ \E ok \in BOOLEAN :
        IF ok
        THEN /\ childpc' = "forked"
             /\ child_tmpdir' = tmpdir
             /\ sandboxed' = FALSE
             /\ mainpc' = "wait"
             /\ UNCHANGED <<tmpdir, ended, files>>
        ELSE /\ ParentExits("exit", files)
             /\ UNCHANGED <<childpc, child_tmpdir, sandboxed>>
    /\ UNCHANGED <<disable_sandbox, handlers, redirects, wstatus, events>>
    /\ UNCHANGED <<loopVars, normVars, metaVars, readVars, parseVars, prepVars, restVars>>

\* fork_and_run_dangerous() from wait() on, and the test of the loop of
\* main()
Wait ==
    /\ mainpc = "wait"
    /\ childpc = "exited"
    /\ childpc' = "none"
    /\ IF wstatus = STATUS_HTML_REDIRECT
       THEN /\ redirects' = redirects + 1
            /\ mainpc' = "save"
       ELSE /\ mainpc' = "return"
            /\ UNCHANGED redirects
    /\ UNCHANGED <<disable_sandbox, handlers, tmpdir, ended, child_tmpdir,
                   sandboxed, wstatus, files, events>>
    /\ UNCHANGED <<loopVars, normVars, metaVars, readVars, parseVars, prepVars, restVars>>

\* main() returns
Return ==
    /\ mainpc = "return"
    /\ ParentExits("return", files)
    /\ UNCHANGED <<disable_sandbox, handlers, redirects, childpc,
                   child_tmpdir, sandboxed, wstatus, events>>
    /\ UNCHANGED <<loopVars, normVars, metaVars, readVars, parseVars, prepVars, restVars>>

\* signal_term_cleanup() in the parent, for one of the five signals
ParentSignal ==
    /\ handlers
    /\ ended = "running"
    /\ ParentExits("signal", files)
    /\ events' = events \cup
            (IF tmpdir THEN {Event("remove", "parent", FALSE)} ELSE {})
    /\ UNCHANGED <<disable_sandbox, handlers, redirects, childpc,
                   child_tmpdir, sandboxed, wstatus>>
    /\ UNCHANGED <<loopVars, normVars, metaVars, readVars, parseVars, prepVars, restVars>>

\* The child: free(tmpdir); tmpdir = NULL
ChildForgetsTmpdir ==
    /\ childpc = "forked"
    /\ child_tmpdir' = FALSE
    /\ childpc' = "run"
    /\ UNCHANGED <<disable_sandbox, handlers, mainpc, tmpdir, ended,
                   redirects, sandboxed, wstatus, files, events>>
    /\ UNCHANGED <<loopVars, normVars, metaVars, readVars, parseVars, prepVars, restVars>>

\* signal_term_cleanup() in the child, which inherits the handlers
ChildSignal ==
    /\ childpc \notin {"none", "exited"}
    /\ files' = clean_temp_filepath(child_tmpdir, files)
    /\ events' = events \cup
            (IF child_tmpdir THEN {Event("remove", "child", sandboxed)}
             ELSE {})
    /\ child_tmpdir' = FALSE
    /\ ChildExits(StatusSigint)
    /\ UNCHANGED <<disable_sandbox, handlers, mainpc, tmpdir, ended,
                   redirects, sandboxed>>
    /\ UNCHANGED <<loopVars, normVars, metaVars, readVars, parseVars, prepVars, restVars>>

\* run_dangerous(): map_file()
ChildMapFile ==
    /\ childpc = "run"
    /\ \E empty \in BOOLEAN :
        IF empty THEN ChildExits(1)
        ELSE childpc' = "sandbox" /\ UNCHANGED wstatus
    /\ UNCHANGED <<disable_sandbox, handlers, mainpc, tmpdir, ended,
                   redirects, child_tmpdir, sandboxed, files, events>>
    /\ UNCHANGED <<loopVars, normVars, metaVars, readVars, parseVars, prepVars, restVars>>

\* run_dangerous(): start_sandbox()
ChildStartSandbox ==
    /\ childpc = "sandbox"
    /\ \E loads \in BOOLEAN :
        LET s == start_sandbox(disable_sandbox, loads)
        IN  IF s.alive
            THEN /\ sandboxed' = s.boxed
                 /\ childpc' = "parse"
                 /\ UNCHANGED wstatus
            ELSE /\ ChildExits(1)
                 /\ UNCHANGED sandboxed
    /\ UNCHANGED <<disable_sandbox, handlers, mainpc, tmpdir, ended,
                   redirects, child_tmpdir, files, events>>
    /\ UNCHANGED <<loopVars, normVars, metaVars, readVars, parseVars, prepVars, restVars>>

\* run_dangerous(): parse_mapped_file(), that is htmlReadMemory()
ChildParseFile ==
    /\ childpc = "parse"
    /\ events' = events \cup {Event("parse", "child", sandboxed)}
    /\ \E ok \in BOOLEAN :
        IF ok THEN childpc' = "redirect" /\ UNCHANGED wstatus
        ELSE ChildExits(1)
    /\ UNCHANGED <<disable_sandbox, handlers, mainpc, tmpdir, ended,
                   redirects, child_tmpdir, sandboxed, files>>
    /\ UNCHANGED <<loopVars, normVars, metaVars, readVars, parseVars, prepVars, restVars>>

\* run_dangerous(): check_html_redirect()
ChildCheckRedirect ==
    /\ childpc = "redirect"
    /\ \E found \in BOOLEAN :
        IF found /\ redirects < MaxRedirects
        THEN ChildExits(STATUS_HTML_REDIRECT)
        ELSE childpc' = "extract" /\ UNCHANGED wstatus
    /\ UNCHANGED <<disable_sandbox, handlers, mainpc, tmpdir, ended,
                   redirects, child_tmpdir, sandboxed, files, events>>
    /\ UNCHANGED <<loopVars, normVars, metaVars, readVars, parseVars, prepVars, restVars>>

\* run_dangerous(): is_probably_readerable() or parse() and the output
ChildExtract ==
    /\ childpc = "extract"
    /\ events' = events \cup {Event("extract", "child", sandboxed)}
    /\ \E status \in {0, 1, StatusSigsegv} : ChildExits(status)
    /\ UNCHANGED <<disable_sandbox, handlers, mainpc, tmpdir, ended,
                   redirects, child_tmpdir, sandboxed, files>>
    /\ UNCHANGED <<loopVars, normVars, metaVars, readVars, parseVars, prepVars, restVars>>

ProcNext ==
    \/ SetCleanupHandlers
    \/ ParseArguments
    \/ Mkdtemp
    \/ AssignTmpdir
    \/ OpenTempFiles
    \/ SaveInput
    \/ Fork
    \/ Wait
    \/ Return
    \/ ParentSignal
    \/ ChildForgetsTmpdir
    \/ ChildSignal
    \/ ChildMapFile
    \/ ChildStartSandbox
    \/ ChildParseFile
    \/ ChildCheckRedirect
    \/ ChildExtract

(***************************************************************************)
(* The document before and after parse() has prepared it                   *)
(***************************************************************************)

MaxPrepNodes == 3

\* A node of a parsed document: an element, a text node ("#text", with the
\* length of its content once trimmed) or a comment ("#comment")
DNode(tag, text) ==
    [tag |-> tag, depth |-> 0, nid |-> 0, origin |-> "input", id |-> "",
     class |-> <<>>, src |-> "", text |-> text, hidden |-> FALSE,
     unlikely |-> FALSE]

\* A <script> and a <style> stand for the element and the text inside it
\* An image with a source, one without, and a <noscript> with an image
PrepKinds ==
    {DNode(tag, 0) : tag \in {"div", "p", "span", "br", "#comment", "#text"}}
    \cup {DNode(tag, 600) : tag \in {"script", "style", "#text"}}
    \cup {[DNode(tag, 0) EXCEPT !.src = "image"] : tag \in {"img", "noscript"}}
    \cup {DNode("img", 0)}

PrepLeaves ==
    {"br", "script", "style", "#comment", "#text", "img", "noscript"}

\* <html><body> with at most n nodes inside the body
RECURSIVE PrepDocsUpTo(_)
PrepDocsUpTo(n) ==
    IF n = 0
    THEN {<<DNode("html", 0), [DNode("body", 0) EXCEPT !.depth = 1]>>}
    ELSE LET prev == PrepDocsUpTo(n - 1)
         IN  prev \cup UNION {
                 {Append(t, [k EXCEPT !.depth = d]) :
                     k \in PrepKinds,
                     d \in 2..(IF t[Len(t)].tag \in PrepLeaves
                               THEN t[Len(t)].depth
                               ELSE t[Len(t)].depth + 1)} :
                 t \in prev}

\* "Yes" or "No", as print_metadata() prints the verdict
YesNo(verdict) == IF verdict THEN "Yes" ELSE "No"

PrepInit ==
    /\ ddoc \in PrepDocsUpTo(MaxPrepNodes)
    /\ dcheck = "none"
    /\ dprep = <<>>
    /\ dmeta = "none"
    /\ dpc = "start"

\* rdrview -c: run_dangerous() stops at is_probably_readerable(doc)
QuickCheck ==
    /\ dpc = "start"
    /\ dcheck' = YesNo(is_probably_readerable(ddoc))
    /\ dpc' = "checked"
    /\ UNCHANGED <<ddoc, dprep, dmeta>>
    /\ UNCHANGED <<loopVars, normVars, metaVars, readVars, parseVars, procVars, restVars>>

\* rdrview -M on the same input: parse(doc) prepares the document itself;
\* grab_article() then works on copies of it
PrepareForMetadata ==
    /\ dpc = "checked"
    /\ dprep' = PreparedDoc(ddoc)
    /\ dpc' = "prepared"
    /\ UNCHANGED <<ddoc, dcheck, dmeta>>
    /\ UNCHANGED <<loopVars, normVars, metaVars, readVars, parseVars, procVars, restVars>>

\* rdrview -M: parse() returns an article, which takes some text, and
\* print_metadata(doc) prints the Readerable line; or it returns NULL and
\* the program exits without printing
PrintMetadata ==
    /\ dpc = "prepared"
    /\ \E article \in BOOLEAN :
        /\ article => text_content_length(dprep, 1) > 0
        /\ dmeta' = IF article THEN YesNo(is_probably_readerable(dprep))
                    ELSE "none"
    /\ dpc' = "done"
    /\ UNCHANGED <<ddoc, dcheck, dprep>>
    /\ UNCHANGED <<loopVars, normVars, metaVars, readVars, parseVars, procVars, restVars>>

PrepNext == QuickCheck \/ PrepareForMetadata \/ PrintMetadata

(***************************************************************************)
(* grab_article(): the scoring of the nodes and the list of top candidates *)
(***************************************************************************)

MaxScoreNodes == 3
MaxCandidates == 6
MaxScoreAttempts == 2

DEFAULT_N_TOP_CANDIDATES == 5

\* A score: the C code keeps a double, which here is the exact fraction n/d
RECURSIVE Gcd(_, _)
Gcd(a, b) == IF b = 0 THEN a ELSE Gcd(b, a % b)

\* The fraction n/d in lowest terms, for d > 0
Rat(n, d) ==
    LET g == Gcd(IF n < 0 THEN 0 - n ELSE n, d)
    IN  [n |-> n \div g, d |-> d \div g]

RatAdd(a, b) == Rat(a.n * b.d + b.n * a.d, a.d * b.d)

RatMul(a, b) == Rat(a.n * b.n, a.d * b.d)

RatLeq(a, b) == a.n * b.d <= b.n * a.d

RatEq(a, b) == a.n * b.d = b.n * a.d

\* An element of the working copy, with the struct node_info it may have:
\* the length and the commas of the text it holds directly, the weight that
\* get_class_weight() finds, the flags and the score
SNode(tag, text, commas, weight) ==
    [tag |-> tag, depth |-> 0, text |-> text, commas |-> commas,
     weight |-> weight, to_score |-> FALSE, initialized |-> FALSE,
     candidate |-> FALSE, score |-> Rat(0, 1)]

TAGS_TO_SCORE ==
    {"section", "h2", "h3", "h4", "h5", "h6", "p", "td", "pre"}

\* grab_article(): has_default_tag_to_score() and mark_to_score()
mark_to_score(t) ==
    [i \in 1..Len(t) |->
        [t[i] EXCEPT !.to_score = t[i].tag \in TAGS_TO_SCORE]]

\* char_count(text, ','), for the text of the node and of its descendants
RECURSIVE SumCommas(_, _, _)
SumCommas(t, i, j) ==
    IF i > j THEN 0 ELSE t[i].commas + SumCommas(t, i + 1, j)

\* total_for_descendants(node, length_if_link): every <a> below the node
\* adds the length of all of its text, a nested <a> once more
RECURSIVE LinkLengthFrom(_, _, _)
LinkLengthFrom(t, j, last) ==
    IF j > last THEN 0
    ELSE (IF t[j].tag = "a" THEN text_content_length(t, j) ELSE 0)
         + LinkLengthFrom(t, j + 1, last)

\* get_link_density()
get_link_density(t, i) ==
    IF text_content_length(t, i) = 0 THEN Rat(0, 1)
    ELSE Rat(LinkLengthFrom(t, i + 1, SubtreeEnd(t, i, i)),
             text_content_length(t, i))

\* initialize_node()
initialize_node(n) ==
    LET base ==
            IF n.tag = "div" THEN 5
            ELSE IF n.tag \in {"pre", "td", "blockquote"} THEN 3
            ELSE IF n.tag \in {"address", "form"} THEN 0 - 3
            ELSE IF n.tag \in {"ol", "ul", "dl", "dd", "dt", "li"} THEN 0 - 3
            ELSE IF n.tag \in {"h1", "h2", "h3", "h4", "h5", "h6", "th"}
                 THEN 0 - 5
            ELSE 0
    IN  [n EXCEPT !.score = RatAdd(@, Rat(base + n.weight, 1)),
                  !.initialized = TRUE]

\* The k-th ancestor of node i (0: there is none; the parent of the root
\* element is the document, which is not an element and has no parent)
RECURSIVE Ancestor(_, _, _)
Ancestor(t, i, k) ==
    IF k = 0 \/ i = 0 THEN i ELSE Ancestor(t, Parent(t, i), k - 1)

\* assign_content_score_ancestors(): what the ancestor at each level gets
LevelShare(score, k) ==
    IF k = 1 THEN Rat(score, 1)
    ELSE IF k = 2 THEN Rat(score, 2)
    ELSE Rat(score, 6)

\* assign_content_score_ancestors(): whether the loop scores ancestor a; it
\* skips a node whose parent is not an element, which is the root element
IsScoredAncestor(t, a) == a # 0 /\ Parent(t, a) # 0

\* assign_content_score_ancestors(): one round of the loop
ScoreAncestor(t, a, amount) ==
    IF ~IsScoredAncestor(t, a) THEN t
    ELSE LET n == IF t[a].initialized THEN t[a]
                  ELSE [initialize_node(t[a]) EXCEPT !.candidate = TRUE]
         IN  [t EXCEPT ![a] = [n EXCEPT !.score = RatAdd(@, amount)]]

assign_content_score_ancestors(t, i, score) ==
    ScoreAncestor(
        ScoreAncestor(
            ScoreAncestor(t, Ancestor(t, i, 1), LevelShare(score, 1)),
            Ancestor(t, i, 2), LevelShare(score, 2)),
        Ancestor(t, i, 3), LevelShare(score, 3))

Min(a, b) == IF a <= b THEN a ELSE b

\* assign_content_score(): the score of a paragraph with length code points
content_score_once(commas, length) ==
    1 + commas + Min(length \div 100, 3)

content_score(commas, length) ==
    1 + (commas + 1) + Min(length \div 100, 3)

\* assign_content_score(): whether the function gets past its three tests
IsScored(t, i) ==
    /\ t[i].to_score
    /\ Parent(t, i) # 0
    /\ text_content_length(t, i) >= 25

\* assign_content_score()
assign_content_score(t, i) ==
    IF ~IsScored(t, i) THEN t
    ELSE assign_content_score_ancestors(t, i,
            content_score(SumCommas(t, i, SubtreeEnd(t, i, i)),
                          text_content_length(t, i)))

\* What assign_content_score() on node i adds to the log: one record for
\* each add_to_score() of assign_content_score_ancestors()
ScoreEvents(t, i) ==
    IF ~IsScored(t, i) THEN {}
    ELSE {[what |-> "score", node |-> i, to |-> Ancestor(t, i, k),
           amount |-> LevelShare(
                content_score(SumCommas(t, i, SubtreeEnd(t, i, i)),
                              text_content_length(t, i)), k)] :
            k \in {l \in 1..3 : IsScoredAncestor(t, Ancestor(t, i, l))}}

\* A pointer of tops[] to a node of a working copy that free_doc() has freed
Dangling == 0 - 1

\* consider_for_top_list(): score * (1 - get_link_density(node))
normalized_score_flipped(score, density) ==
    RatMul(score, RatAdd(density, Rat(0 - 1, 1)))

normalized_score(score, density) ==
    RatMul(score, RatAdd(Rat(1, 1), Rat(0 - density.n, density.d)))

\* consider_for_top_list(): the slot the loop stops at (0: none). Reading
\* the score of a freed node can give anything: garbage tells whether the
\* comparison with it holds
RECURSIVE TopSlotFromStrict(_, _, _, _, _)
TopSlotFromStrict(tops, t, score, k, garbage) ==
    IF k > DEFAULT_N_TOP_CANDIDATES THEN 0
    ELSE IF tops[k] = 0 THEN k
    ELSE IF tops[k] = Dangling
         THEN IF garbage
              THEN TopSlotFromStrict(tops, t, score, k + 1, garbage) ELSE k
    ELSE IF ~RatLeq(t[tops[k]].score, score)
         THEN TopSlotFromStrict(tops, t, score, k + 1, garbage)
    ELSE k

RECURSIVE TopSlotFrom(_, _, _, _, _)
TopSlotFrom(tops, t, score, k, garbage) ==
    IF k > DEFAULT_N_TOP_CANDIDATES THEN 0
    ELSE IF tops[k] = 0 THEN k
    ELSE IF tops[k] = Dangling
         THEN IF garbage
              THEN TopSlotFrom(tops, t, score, k + 1, garbage) ELSE k
    ELSE IF RatLeq(score, t[tops[k]].score)
         THEN TopSlotFrom(tops, t, score, k + 1, garbage)
    ELSE k

\* consider_for_top_list(): whether the loop reads the score of a freed node
ReadsFreed(tops, t, score) ==
    LET k == TopSlotFrom(tops, t, score, 1, FALSE)
    IN  k # 0 /\ tops[k] = Dangling

\* consider_for_top_list(): the store to tops[k] without the memmove()
InsertTopNoShift(tops, k, node) ==
    IF k = 0 THEN tops ELSE [tops EXCEPT ![k] = node]

\* consider_for_top_list(): memmove() and the store to tops[k]
InsertTop(tops, k, node) ==
    IF k = 0 THEN tops
    ELSE [j \in 1..DEFAULT_N_TOP_CANDIDATES |->
            IF j < k THEN tops[j]
            ELSE IF j = k THEN node
            ELSE tops[j - 1]]

\* The document with the normalized score saved in node i
SaveNormalized(t, i) ==
    [t EXCEPT ![i].score =
        normalized_score(t[i].score, get_link_density(t, i))]

\* consider_for_top_list(): the new tops[]
consider_for_top_list(tops, t, i, garbage) ==
    IF ~t[i].candidate THEN tops
    ELSE InsertTop(tops,
            TopSlotFrom(tops, SaveNormalized(t, i),
                        SaveNormalized(t, i)[i].score, 1, garbage),
            i)

\* The elements inside <body> for the documents with few nodes
ScoreKinds ==
    {SNode("blockquote", 0, 0, 0), SNode("ul", 0, 0, 0),
     SNode("article", 0, 0, 0 - 25), SNode("p", 20, 0, 0),
     SNode("p", 30, 0, 0), SNode("p", 120, 1, 0), SNode("a", 30, 0, 0)}

RECURSIVE ScoreDocsUpTo(_)
ScoreDocsUpTo(n) ==
    IF n = 0
    THEN {<<SNode("html", 0, 0, 0),
            [SNode("body", 0, 0, 0) EXCEPT !.depth = 1]>>}
    ELSE LET prev == ScoreDocsUpTo(n - 1)
         IN  prev \cup UNION {
                 {Append(t, [k EXCEPT !.depth = d]) :
                     k \in ScoreKinds, d \in 2..(t[Len(t)].depth + 1)} :
                 t \in prev}

\* A container with one paragraph, for the documents with many candidates
Block(tag, text, commas) ==
    <<[SNode(tag, 0, 0, 0) EXCEPT !.depth = 2],
      [SNode("p", text, commas, 0) EXCEPT !.depth = 3]>>

ScoreBlocks ==
    {Block("blockquote", 30, 0), Block("blockquote", 120, 1),
     Block("ul", 120, 1)}

RECURSIVE BlockDocsUpTo(_)
BlockDocsUpTo(n) ==
    IF n = 0 THEN ScoreDocsUpTo(0)
    ELSE LET prev == BlockDocsUpTo(n - 1)
         IN  prev \cup {t \o b : t \in prev, b \in ScoreBlocks}

\* free_doc(tempdoc): what tops[] held now points to freed nodes
FreeDoc(tops) ==
    [k \in 1..DEFAULT_N_TOP_CANDIDATES |->
        IF tops[k] = 0 THEN 0 ELSE Dangling]

\* xmlCopyDoc(): the copy has no node_info yet; then the walk that marks
\* the nodes to score
FreshCopy(t) ==
    mark_to_score(
        [i \in 1..Len(t) |->
            [t[i] EXCEPT !.initialized = FALSE, !.candidate = FALSE,
                         !.score = Rat(0, 1)]])

ScoreInit ==
    /\ sdoc \in {FreshCopy(t) :
                    t \in ScoreDocsUpTo(MaxScoreNodes)
                          \cup BlockDocsUpTo(MaxCandidates)}
    /\ stops = [k \in 1..DEFAULT_N_TOP_CANDIDATES |-> 0]
    /\ scur = first_node(sdoc)
    /\ slog = {}
    /\ sattempt = 1
    /\ spc = "assign"

\* run_on_nodes(tempdoc, assign_content_score): one node
AssignContentScore ==
    /\ spc = "assign"
    /\ sdoc' = assign_content_score(sdoc, scur)
    /\ slog' = slog \cup ScoreEvents(sdoc, scur)
    /\ IF following_node(sdoc, scur) = 0
       THEN scur' = first_node(sdoc) /\ spc' = "consider"
       ELSE scur' = following_node(sdoc, scur) /\ spc' = spc
    /\ UNCHANGED <<stops, sattempt>>
    /\ UNCHANGED baseVars /\ RestUnchangedBut("score")

\* run_on_nodes(doc, consider_for_top_list): one node
ConsiderForTopList ==
    /\ spc = "consider"
    /\ \E garbage \in BOOLEAN :
        stops' = consider_for_top_list(stops, sdoc, scur, garbage)
    /\ sdoc' = IF sdoc[scur].candidate THEN SaveNormalized(sdoc, scur)
               ELSE sdoc
    /\ slog' = slog \cup
        IF ~sdoc[scur].candidate THEN {}
        ELSE {[what |-> "normalize", node |-> scur,
               before |-> sdoc[scur].score,
               density |-> get_link_density(sdoc, scur)]}
             \cup IF ReadsFreed(stops, sdoc,
                                SaveNormalized(sdoc, scur)[scur].score)
                  THEN {[what |-> "read of a freed node", node |-> scur]}
                  ELSE {}
    /\ IF following_node(sdoc, scur) = 0
       THEN scur' = 0 /\ spc' = "top"
       ELSE scur' = following_node(sdoc, scur) /\ spc' = spc
    /\ UNCHANGED sattempt
    /\ UNCHANGED baseVars /\ RestUnchangedBut("score")

\* The slots of tops[] that find_top_candidate() and
\* find_better_top_candidate() read as nodes: tops[0], unless it is NULL,
\* and, when it is not <body> and its score is not 0 and its parent is not
\* <body>, the slots from tops[1] to the one before the first NULL
BetterTopReads(tops, t) ==
    IF tops[1] = 0 THEN {}
    ELSE IF tops[1] = Dangling THEN {1}
    ELSE IF t[tops[1]].tag = "body" THEN {1}
    ELSE IF RatEq(t[tops[1]].score, Rat(0, 1)) THEN {1}
    ELSE IF Parent(t, tops[1]) = 0 THEN {1}
    ELSE IF t[Parent(t, tops[1])].tag = "body" THEN {1}
    ELSE {1} \cup {k \in 2..DEFAULT_N_TOP_CANDIDATES :
                      \A j \in 2..k : tops[j] # 0}

\* find_top_candidate(), after run_on_nodes(): find_better_top_candidate()
\* reads the list, then tops[0] = NULL. Which node it returns is not
\* followed here
FindTopCandidateEnd ==
    /\ spc = "top"
    /\ stops' = [stops EXCEPT ![1] = 0]
    /\ slog' = slog \cup
        IF \E k \in BetterTopReads(stops, sdoc) : stops[k] = Dangling
        THEN {[what |-> "read of a freed node", node |-> 0]}
        ELSE {}
    /\ spc' = "done"
    /\ UNCHANGED <<sdoc, scur, sattempt>>
    /\ UNCHANGED baseVars /\ RestUnchangedBut("score")

\* grab_article(): one more round of the loop, on a new copy of the document
NextAttempt ==
    /\ spc = "done"
    /\ sattempt < MaxScoreAttempts
    /\ sattempt' = sattempt + 1
    /\ sdoc' = FreshCopy(sdoc)
    /\ stops' = FreeDoc(stops)
    /\ scur' = first_node(sdoc)
    /\ slog' = {}
    /\ spc' = "assign"
    /\ UNCHANGED baseVars /\ RestUnchangedBut("score")

ScoreNext ==
    AssignContentScore \/ ConsiderForTopList \/ FindTopCandidateEnd
    \/ NextAttempt

(***************************************************************************)
(* grab_article(): the walk before the scoring, and the byline             *)
(***************************************************************************)

MaxBylineNodes == 3
MaxBylineAttempts == 2

\* metadata.byline when a <meta> gave it
MetaByline == 0 - 1

\* An element: the length of the text it holds directly, whether rel,
\* itemprop, class or id make it look like a byline, whether it is hidden
\* and whether its class or id are unlikely
BNode(tag, text, byline, hidden, unlikely) ==
    [tag |-> tag, depth |-> 0, nid |-> 0, text |-> text, byline |-> byline,
     hidden |-> hidden, unlikely |-> unlikely]

BylineKinds ==
    {BNode("p", 50, FALSE, FALSE, FALSE),
     BNode("p", 50, TRUE, FALSE, FALSE),
     BNode("p", 150, TRUE, FALSE, FALSE),
     BNode("p", 0, TRUE, FALSE, FALSE),
     BNode("p", 50, TRUE, TRUE, FALSE),
     BNode("p", 50, TRUE, FALSE, TRUE),
     BNode("p", 50, FALSE, FALSE, TRUE)}

\* The <body>: plain, hidden, with a class that looks like a byline, or with
\* an unlikely class
BylineBodies ==
    {[BNode("body", 0, FALSE, FALSE, FALSE) EXCEPT !.depth = 1],
     [BNode("body", 0, FALSE, TRUE, FALSE) EXCEPT !.depth = 1],
     [BNode("body", 0, TRUE, FALSE, FALSE) EXCEPT !.depth = 1],
     [BNode("body", 0, FALSE, FALSE, TRUE) EXCEPT !.depth = 1]}

\* <html>, with or without a <head>, and a <body> with at most n nodes
RECURSIVE BylineDocsUpTo(_)
BylineDocsUpTo(n) ==
    IF n = 0
    THEN {<<BNode("html", 0, FALSE, FALSE, FALSE)>> \o head \o <<body>> :
            head \in {<<>>, <<[BNode("head", 0, FALSE, FALSE, FALSE)
                                  EXCEPT !.depth = 1]>>},
            body \in BylineBodies}
    ELSE LET prev == BylineDocsUpTo(n - 1)
         IN  prev \cup UNION {
                 {Append(t, [k EXCEPT !.depth = d]) :
                     k \in BylineKinds, d \in 2..(t[Len(t)].depth + 1)} :
                 t \in prev}

\* check_byline(): the new found_byline and metadata.byline; the value
\* returned is the new found_byline
check_byline(t, i, found, byline) ==
    IF found THEN [found |-> found, byline |-> byline, ret |-> FALSE]
    ELSE IF /\ t[i].byline
            /\ text_content_length(t, i) > 0
            /\ text_content_length(t, i) < 100
         THEN [found |-> TRUE,
               byline |-> IF byline = 0 THEN t[i].nid ELSE byline,
               ret |-> TRUE]
         ELSE [found |-> FALSE, byline |-> byline, ret |-> FALSE]

is_node_visible(t, i) == ~t[i].hidden

\* is_node_unlikely(), for elements without a role
is_node_unlikely(t, i) ==
    IF has_ancestor_tag(t, i, "table") \/ t[i].tag \in {"body", "a"}
    THEN FALSE
    ELSE t[i].unlikely

DIV_ELEMS ==
    {"div", "section", "header", "h1", "h2", "h3", "h4", "h5", "h6"}

\* is_division_without_content()
is_division_without_content(t, i) ==
    /\ t[i].tag \in DIV_ELEMS
    /\ text_content_length(t, i) = 0
    /\ \A k \in (i + 1)..SubtreeEnd(t, i, i) : t[k].tag \in {"br", "hr"}

\* no_need_to_score() with the test for unlikely nodes ahead of the byline
no_need_to_score_unlikely_first(t, i, strip, found, byline) ==
    IF ~is_node_visible(t, i) \/ (strip /\ is_node_unlikely(t, i))
    THEN [found |-> found, byline |-> byline, ret |-> TRUE]
    ELSE IF check_byline(t, i, found, byline).ret
    THEN check_byline(t, i, found, byline)
    ELSE [check_byline(t, i, found, byline) EXCEPT
            !.ret = is_division_without_content(t, i)]

\* no_need_to_score(): the value returned, and what check_byline() has left
\* in found_byline and metadata.byline if it was reached
no_need_to_score(t, i, strip, found, byline) ==
    IF ~is_node_visible(t, i)
    THEN [found |-> found, byline |-> byline, ret |-> TRUE]
    ELSE IF check_byline(t, i, found, byline).ret
    THEN check_byline(t, i, found, byline)
    ELSE [check_byline(t, i, found, byline) EXCEPT
            !.ret = (strip /\ is_node_unlikely(t, i))
                    \/ is_division_without_content(t, i)]

BylineInit ==
    /\ bdoc \in {Numbered(t) : t \in BylineDocsUpTo(MaxBylineNodes)}
    /\ btemp = bdoc
    /\ bcur = first_node(bdoc)
    /\ bstrip = TRUE
    /\ found_byline = FALSE
    /\ bbyline \in {0, MetaByline}
    /\ bvisited = <<>>
    /\ bcaptured = <<>>
    /\ battempt = 1
    /\ bpc = "walk"

\* grab_article(): one round of the first loop; no document here has a <div>
WalkNode ==
    /\ bpc = "walk"
    /\ LET r == no_need_to_score(btemp, bcur, bstrip, found_byline, bbyline)
           t == IF r.ret THEN RemoveSubtree(btemp, bcur) ELSE btemp
           next == IF r.ret THEN (IF bcur <= Len(t) THEN bcur ELSE 0)
                   ELSE following_node(btemp, bcur)
       IN  /\ btemp' = t
           /\ found_byline' = r.found
           /\ bbyline' = r.byline
           /\ bvisited' = Append(bvisited, btemp[bcur].nid)
           /\ bcaptured' = IF r.found /\ ~found_byline
                           THEN Append(bcaptured, btemp[bcur].nid)
                           ELSE bcaptured
           /\ bcur' = next
           /\ bpc' = IF next = 0 THEN "walked" ELSE "walk"
    /\ UNCHANGED <<bdoc, bstrip, battempt>>
    /\ UNCHANGED baseVars /\ RestUnchangedBut("byline")

\* grab_article(): find_top_candidate() and, for want of a candidate,
\* top_candidate_from_all(). With the <body> gone nothing in the copy can be
\* a candidate, and get_body() ends the program with "document has no body
\* tag"; when nothing but the root element is left, run_on_nodes() returns
\* NULL and find_top_candidate() reads tops[0] through it: the read faults,
\* or it goes through and no candidate is found.
TopCandidate ==
    /\ bpc = "walked"
    /\ bpc' \in IF first_node(btemp) = 0 THEN {"sigsegv", "no body tag"}
                ELSE IF get_body(btemp) = 0 THEN {"no body tag"}
                ELSE {"scored"}
    /\ UNCHANGED <<bdoc, btemp, bcur, bstrip, found_byline, bbyline,
                   bvisited, bcaptured, battempt>>
    /\ UNCHANGED baseVars /\ RestUnchangedBut("byline")

\* grab_article(): needs_one_more_try() has cleared OPT_STRIP_UNLIKELY and
\* the loop starts again on a new copy of the document
WalkAgain ==
    /\ bpc = "scored"
    /\ battempt < MaxBylineAttempts
    /\ battempt' = battempt + 1
    /\ bstrip' = FALSE
    /\ btemp' = bdoc
    /\ bcur' = first_node(bdoc)
    /\ bpc' = "walk"
    /\ UNCHANGED <<bdoc, found_byline, bbyline, bvisited, bcaptured>>
    /\ UNCHANGED baseVars /\ RestUnchangedBut("byline")

BylineNext == WalkNode \/ TopCandidate \/ WalkAgain

(***************************************************************************)
(* bw_remove_descendants_if()                                              *)
(***************************************************************************)

MaxWalkNodes == 4

\* A node and what the condition says of it: "keep", "drop", or "if empty"
\* for a condition that holds once the node has no children left
WNode(mark) == [tag |-> "div", depth |-> 0, nid |-> 0, mark |-> mark]

RECURSIVE WalkTreesUpTo(_)
WalkTreesUpTo(n) ==
    IF n = 0 THEN {<<WNode("keep")>>}
    ELSE LET prev == WalkTreesUpTo(n - 1)
         IN  prev \cup UNION {
                 {Append(t, [WNode(mark) EXCEPT !.depth = d]) :
                     mark \in {"keep", "drop", "if empty"},
                     d \in 1..(t[Len(t)].depth + 1)} :
                 t \in prev}

\* The condition given to bw_remove_descendants_if()
check(t, i) ==
    \/ t[i].mark = "drop"
    \/ t[i].mark = "if empty" /\ SubtreeEnd(t, i, i) = i

\* last_node(): following_node() is followed until it gives NULL
RECURSIVE last_node(_, _)
last_node(t, curr) ==
    IF following_node(t, curr) = 0 THEN curr
    ELSE last_node(t, following_node(t, curr))

\* previous_node(): the last node below the previous sibling, or the parent
previous_node(t, i) ==
    IF PrevSibling(t, i) # 0
    THEN SubtreeEnd(t, PrevSibling(t, i), PrevSibling(t, i))
    ELSE Parent(t, i)

WalkInit ==
    /\ wdoc \in {Numbered(t) : t \in WalkTreesUpTo(MaxWalkNodes)}
    /\ wtree = wdoc
    /\ wroot \in 1..Len(wdoc)
    /\ wcur = last_node(wdoc, wroot)
    /\ wevals = <<>>
    /\ wpc = "walk"

\* bw_remove_descendants_if(): one round of the loop
BwStep ==
    /\ wpc = "walk"
    /\ wcur # wroot
    /\ wevals' = Append(wevals, wtree[wcur].nid)
    /\ wcur' = previous_node(wtree, wcur)
    /\ wtree' = IF check(wtree, wcur) THEN RemoveSubtree(wtree, wcur)
                ELSE wtree
    /\ UNCHANGED <<wdoc, wroot, wpc>>
    /\ UNCHANGED baseVars /\ RestUnchangedBut("walk")

\* bw_remove_descendants_if(): curr == last, the function returns
BwReturn ==
    /\ wpc = "walk"
    /\ wcur = wroot
    /\ wpc' = "done"
    /\ UNCHANGED <<wdoc, wtree, wroot, wcur, wevals>>
    /\ UNCHANGED baseVars /\ RestUnchangedBut("walk")

WalkNext == BwStep \/ BwReturn

(***************************************************************************)
(* word_count() on its own                                                 *)
(***************************************************************************)

MaxWords == 5

\* A letter, a space, a tab and the separators | and -
WordBytes == {ByteA, SP, TAB, SEPARATORS[1], SEPARATORS[2]}

WordStrings == UNION {[1..k -> WordBytes] : k \in 0..MaxWords}

WordsInit ==
    /\ cstr \in WordStrings
    /\ cplain = 0
    /\ cseps = 0
    /\ cpc = "start"

\* word_count(str, false)
CountWords ==
    /\ cpc = "start"
    /\ cplain' = word_count(cstr, FALSE)
    /\ cpc' = "plain"
    /\ UNCHANGED <<cstr, cseps>>
    /\ UNCHANGED baseVars /\ RestUnchangedBut("words")

\* word_count(str, true)
CountWordsBetweenSeparators ==
    /\ cpc = "plain"
    /\ cseps' = word_count(cstr, TRUE)
    /\ cpc' = "done"
    /\ UNCHANGED <<cstr, cplain>>
    /\ UNCHANGED baseVars /\ RestUnchangedBut("words")

WordsNext == CountWords \/ CountWordsBetweenSeparators

(***************************************************************************)
(* parse(): the order of document preparation and metadata harvesting      *)
(***************************************************************************)

MaxHarvestNodes == 3

\* A node of the parsed document; content is the content attribute of a
\* <meta property="og:site_name">
HNode(tag, src, content) ==
    [tag |-> tag, depth |-> 0, nid |-> 0, origin |-> "input", id |-> "",
     class |-> <<>>, src |-> src, text |-> 0, hidden |-> FALSE,
     unlikely |-> FALSE, content |-> content]

SiteNames == {"", "A", "B"}

HarvestKinds ==
    {HNode(tag, "", "") :
        tag \in {"div", "noscript", "script", "br", "#comment"}}
    \cup {HNode("img", "x", "")}
    \cup {HNode("meta", "", c) : c \in SiteNames}

HarvestLeaves == {"br", "script", "#comment", "img", "meta"}

\* <html><body> with at most n nodes inside the body
RECURSIVE HarvestDocsUpTo(_)
HarvestDocsUpTo(n) ==
    IF n = 0
    THEN {<<HNode("html", "", ""),
            [HNode("body", "", "") EXCEPT !.depth = 1]>>}
    ELSE LET prev == HarvestDocsUpTo(n - 1)
         IN  prev \cup UNION {
                 {Append(t, [k EXCEPT !.depth = d]) :
                     k \in HarvestKinds,
                     d \in 2..(IF t[Len(t)].tag \in HarvestLeaves
                               THEN t[Len(t)].depth
                               ELSE t[Len(t)].depth + 1)} :
                 t \in prev}

\* node_extract_metadata() on a <meta property="og:site_name">:
\* parse_meta_attrs() returns on an empty content and else replaces the field
ExtractSiteNameKeep(n, site) ==
    IF n.tag = "meta" /\ n.content # "" /\ site = "" THEN n.content ELSE site

ExtractSiteName(n, site) ==
    IF n.tag = "meta" /\ n.content # "" THEN n.content ELSE site

\* run_on_nodes(doc, node_extract_metadata) from node i on
RECURSIVE ExtractFrom(_, _, _)
ExtractFrom(t, i, site) ==
    IF i = 0 THEN site
    ELSE ExtractFrom(t, following_node(t, i),
                     ExtractSiteName(t[i], site))

\* get_article_metadata(): the site name it leaves in metadata
get_article_metadata(t) == ExtractFrom(t, first_node(t), "")

HarvestInit ==
    /\ hdoc \in HarvestDocsUpTo(MaxHarvestNodes)
    /\ hwork = hdoc
    /\ hsteps = <<>>
    /\ hsite = ""
    /\ hpc = "comments"

\* remove_nodes_if(doc, is_comment)
RemoveComments ==
    /\ hpc = "comments"
    /\ hwork' = remove_descendants_if(hwork, {"#comment"}, {})
    /\ hsteps' = IF hwork' # hwork THEN Append(hsteps, hpc) ELSE hsteps
    /\ hpc' = "unwrap"
    /\ UNCHANGED <<hdoc, hsite>>
    /\ UNCHANGED baseVars /\ RestUnchangedBut("harvest")

\* unwrap_noscript_images(doc)
UnwrapNoscriptImages ==
    /\ hpc = "unwrap"
    /\ hwork' = unwrap_noscript_images(hwork)
    /\ hsteps' = IF hwork' # hwork THEN Append(hsteps, hpc) ELSE hsteps
    /\ hpc' = "scripts"
    /\ UNCHANGED <<hdoc, hsite>>
    /\ UNCHANGED baseVars /\ RestUnchangedBut("harvest")

\* remove_nodes_if(doc, is_script_or_noscript)
RemoveScripts ==
    /\ hpc = "scripts"
    /\ hwork' = remove_descendants_if(hwork, {"script", "noscript"}, {})
    /\ hsteps' = IF hwork' # hwork THEN Append(hsteps, hpc) ELSE hsteps
    /\ hpc' = "prep_document"
    /\ UNCHANGED <<hdoc, hsite>>
    /\ UNCHANGED baseVars /\ RestUnchangedBut("harvest")

\* prep_document(doc)
PrepDocument ==
    /\ hpc = "prep_document"
    /\ hwork' = prep_document(hwork)
    /\ hsteps' = IF hwork' # hwork THEN Append(hsteps, hpc) ELSE hsteps
    /\ hpc' = "metadata"
    /\ UNCHANGED <<hdoc, hsite>>
    /\ UNCHANGED baseVars /\ RestUnchangedBut("harvest")

\* get_article_metadata(doc), after which parse() goes on to grab_article()
GetArticleMetadata ==
    /\ hpc = "metadata"
    /\ hsite' = get_article_metadata(hwork)
    /\ hpc' = "grab_article"
    /\ UNCHANGED <<hdoc, hwork, hsteps>>
    /\ UNCHANGED baseVars /\ RestUnchangedBut("harvest")

HarvestNext ==
    \/ RemoveComments
    \/ UnwrapNoscriptImages
    \/ RemoveScripts
    \/ PrepDocument
    \/ GetArticleMetadata

(***************************************************************************)
(* build_srcset(): the length of the buffer and the bytes written to it    *)
(***************************************************************************)

MaxSrcsetEntries == 3

\* The longest url or size that the length loop of build_srcset() accepts
SrcsetLimit == 4096

\* The lengths of the url and of the size of an entry: parse_srcset_item()
\* leaves an empty size when the item has none, and an empty url for an
\* item that is a lone comma
SrcsetEntries ==
    {e \in [url : {0, 1, SrcsetLimit, SrcsetLimit + 1},
            size : {0, 2, SrcsetLimit + 1}] :
        e.url = 0 => e.size = 0}

\* The arrays that parse_srcset() returns, without the NULL terminator
RECURSIVE EntryListsUpTo(_)
EntryListsUpTo(n) ==
    IF n = 0 THEN {<<>>}
    ELSE LET prev == EntryListsUpTo(n - 1)
         IN  prev \cup {Append(l, e) : l \in prev, e \in SrcsetEntries}

\* if (url_len > 4096 || sizelen > 4096)
too_long(e) == e.url > SrcsetLimit \/ e.size > SrcsetLimit

\* The bytes that one round of the assembly loop appends with strcat(),
\* the terminator not counted
appended(e, first) ==
    (IF first THEN 0 ELSE 2) + e.url + (IF e.size > 0 THEN 1 + e.size ELSE 0)

SrcsetInit ==
    /\ eents \in EntryListsUpTo(MaxSrcsetEntries)
    /\ ecurr = 1
    /\ elen = 0
    /\ eused = 0
    /\ epc = "measure"

\* One round of the length loop, for an entry that is not too long
MeasureEntry ==
    /\ epc = "measure"
    /\ ecurr <= Len(eents)
    /\ ~too_long(eents[ecurr])
    /\ elen' = elen + eents[ecurr].url + eents[ecurr].size + 3
    /\ ecurr' = ecurr + 1
    /\ UNCHANGED <<eents, eused, epc>>
    /\ UNCHANGED baseVars /\ RestUnchangedBut("srcset")

\* The length loop ends, at the NULL entry or at an entry that is too long;
\* the buffer is allocated and srcset[0] = '\0' written
Allocate ==
    /\ epc = "measure"
    /\ IF ecurr > Len(eents) THEN TRUE ELSE too_long(eents[ecurr])
    /\ elen' = elen + 1
    /\ eused' = 1
    /\ ecurr' = 1
    /\ epc' = "assemble"
    /\ UNCHANGED eents
    /\ UNCHANGED baseVars /\ RestUnchangedBut("srcset")

\* One round of the assembly loop: strcat() moves the terminator
AppendEntry ==
    /\ epc = "assemble"
    /\ ecurr <= Len(eents)
    /\ eused' = eused + appended(eents[ecurr], ecurr = 1)
    /\ ecurr' = ecurr + 1
    /\ UNCHANGED <<eents, elen, epc>>
    /\ UNCHANGED baseVars /\ RestUnchangedBut("srcset")

\* return srcset; after a write past the end of the buffer the heap is
\* damaged and the program may as well be killed
ReturnSrcset ==
    /\ epc = "assemble"
    /\ ecurr > Len(eents)
    /\ epc' \in IF eused <= elen THEN {"returned"}
                ELSE {"returned", "killed"}
    /\ UNCHANGED <<eents, ecurr, elen, eused>>
    /\ UNCHANGED baseVars /\ RestUnchangedBut("srcset")

SrcsetNext == MeasureEntry \/ Allocate \/ AppendEntry \/ ReturnSrcset

(***************************************************************************)
(* grab_article(): the top candidate and the article that is returned      *)
(***************************************************************************)

\* What prep_article() leaves of the article that gather_related_content()
\* built around top: top is still in it ("kept"); top has been removed and
\* freed, as a small share node is, and an appended sibling stays
\* ("removed"); or nothing stays ("childless")
Fates == {"kept", "removed", "childless"}

NoNode == [attempt |-> 0, freed |-> FALSE]

DirInit ==
    /\ gflags = DefaultFlags
    /\ gattempts = [i \in 1..NumAttemptSlots |-> EmptySlot]
    /\ gtop = NoNode
    /\ garticle = [attempt |-> 0, length |-> 0]
    /\ gresult = 0
    /\ gpassed = NoNode
    /\ gpc = "loop"

\* The body of the do-while loop: top is the candidate of this working
\* copy, article is gathered around it and prepared. An article is
\* identified by the number of its attempt.
GrabAttempt ==
    /\ gpc = "loop"
    /\ \E fate \in Fates, len \in ArticleLens :
        LET n == garticle.attempt + 1
        IN  /\ gtop' = [attempt |-> n, freed |-> fate # "kept"]
            /\ garticle' = [attempt |-> n,
                            length |-> IF fate = "childless" THEN 0 ELSE len]
    /\ gpc' = "while"
    /\ UNCHANGED <<gflags, gattempts, gresult, gpassed>>
    /\ UNCHANGED baseVars /\ RestUnchangedBut("dir")

\* while (needs_one_more_try(article))
NeedsOneMoreTry ==
    /\ gpc = "while"
    /\ gattempts' = save_attempt(gattempts, garticle.attempt, garticle.length)
    /\ gflags' = needs_one_more_try(garticle.length, gflags).flags
    /\ gpc' = IF needs_one_more_try(garticle.length, gflags).again
              THEN "loop" ELSE "best"
    /\ UNCHANGED <<gtop, garticle, gresult, gpassed>>
    /\ UNCHANGED baseVars /\ RestUnchangedBut("dir")

\* article = get_best_attempt()
GetBestAttempt ==
    /\ gpc = "best"
    /\ gresult' = get_best_attempt(gattempts)
    /\ gpc' = "direction"
    /\ UNCHANGED <<gflags, gattempts, gtop, garticle, gpassed>>
    /\ UNCHANGED baseVars /\ RestUnchangedBut("dir")

\* if (article) extract_text_direction(top, top_parent): the function reads
\* node->name and the dir attribute of the node; when the node has been
\* freed the read may go through or kill the program
ExtractTextDirection ==
    /\ gpc = "direction"
    /\ IF gresult # 0
       THEN /\ gpassed' = gtop
            /\ gpc' \in IF gtop.freed THEN {"return", "killed"}
                        ELSE {"return"}
       ELSE /\ gpassed' = gpassed
            /\ gpc' = "return"
    /\ UNCHANGED <<gflags, gattempts, gtop, garticle, gresult>>
    /\ UNCHANGED baseVars /\ RestUnchangedBut("dir")

\* free_attempts_except(article); free_doc(tempdoc); return article
ReturnArticle ==
    /\ gpc = "return"
    /\ gattempts' = [i \in 1..NumAttemptSlots |->
                        IF gattempts[i].article = gresult THEN gattempts[i]
                        ELSE [gattempts[i] EXCEPT !.article = 0]]
    /\ gpc' = "returned"
    /\ UNCHANGED <<gflags, gtop, garticle, gresult, gpassed>>
    /\ UNCHANGED baseVars /\ RestUnchangedBut("dir")

DirNext ==
    \/ GrabAttempt
    \/ NeedsOneMoreTry
    \/ GetBestAttempt
    \/ ExtractTextDirection
    \/ ReturnArticle

(***************************************************************************)
(* main(): the loop that follows html redirects                            *)
(***************************************************************************)

MaxPages == 3

Pages == 1..MaxPages

RedirInit ==
    /\ usite \in [Pages -> Pages \cup {0}]
    /\ ukind \in {"remote", "local", "stdin"}
    /\ uurl \in Pages
    /\ udoc = 0
    /\ uret = 0
    /\ upc = "save"

\* check_html_redirect(): no redirect is reported for a local file or for
\* the standard input, nor for a document without a meta refresh
check_html_redirect(kind, target) ==
    IF kind \in {"local", "stdin"} THEN FALSE ELSE target # 0

\* save_input_to_file(input_fp): the document is copied or downloaded
SaveInputToFile ==
    /\ upc = "save"
    /\ udoc' = usite[uurl]
    /\ upc' = "fork"
    /\ UNCHANGED <<usite, ukind, uurl, uret>>
    /\ UNCHANGED baseVars /\ RestUnchangedBut("redir")

\* ret = fork_and_run_dangerous(): the child exits with
\* STATUS_HTML_REDIRECT, or with what the extraction gives
ForkAndRunDangerous ==
    /\ upc = "fork"
    /\ uret' \in IF check_html_redirect(ukind, udoc)
                 THEN {STATUS_HTML_REDIRECT} ELSE {0, 1}
    /\ upc' = "while"
    /\ UNCHANGED <<usite, ukind, uurl, udoc>>
    /\ UNCHANGED baseVars /\ RestUnchangedBut("redir")

\* update_url_from_file(output_fp), and the loop goes round
UpdateUrlFromFile ==
    /\ upc = "while"
    /\ uret = STATUS_HTML_REDIRECT
    /\ uurl' = udoc
    /\ upc' = "save"
    /\ UNCHANGED <<usite, ukind, udoc, uret>>
    /\ UNCHANGED baseVars /\ RestUnchangedBut("redir")

\* The loop ends and main() returns
ReturnFromMain ==
    /\ upc = "while"
    /\ uret # STATUS_HTML_REDIRECT
    /\ upc' = "returned"
    /\ UNCHANGED <<usite, ukind, uurl, udoc, uret>>
    /\ UNCHANGED baseVars /\ RestUnchangedBut("redir")

RedirNext ==
    \/ SaveInputToFile
    \/ ForkAndRunDangerous
    \/ UpdateUrlFromFile
    \/ ReturnFromMain

(***************************************************************************)
(* clean_temp_filepath(), statement by statement, and the signals          *)
(*                                                                         *)
(* sigaction() is called with an empty sa_mask: while the handler of one   *)
(* signal runs, that signal is blocked and the other handled signals are   *)
(* not.                                                                    *)
(***************************************************************************)

\* Two of the five handled signals
HandledSignals == {"SIGINT", "SIGTERM"}

\* The statements of clean_temp_filepath(), in order
CleanSteps ==
    <<"if (!tmpdir)",
      "unlink(inputfile)", "free(inputfile)", "inputfile = NULL",
      "unlink(outputfile)", "free(outputfile)", "outputfile = NULL",
      "rmdir(tmpdir)", "free(tmpdir)", "tmpdir = NULL">>

\* The pointer and the file or directory that a statement is about
StepPtr(step) ==
    CASE step \in {"unlink(inputfile)", "free(inputfile)",
                   "inputfile = NULL"} -> "inputfile"
      [] step \in {"unlink(outputfile)", "free(outputfile)",
                   "outputfile = NULL"} -> "outputfile"
      [] OTHER -> "tmpdir"

StepFile(step) ==
    CASE step = "unlink(inputfile)" -> "input"
      [] step = "unlink(outputfile)" -> "output"
      [] OTHER -> "dir"

\* rmdir() fails on a directory that is not empty
Removable(file, fs) == file = "dir" => fs \cap {"input", "output"} = {}

CleanInit ==
    /\ kptr = [p \in {"inputfile", "outputfile", "tmpdir"} |-> "null"]
    /\ kfs = {}
    /\ kmain = "mkdtemp"
    /\ kstack = <<>>
    /\ kbad = {}
    /\ kended = "running"

\* main() after set_cleanup_handlers(), one statement at a time, down to
\* its return, where exit() calls normal_term_cleanup()
MainStep ==
    /\ kended = "running"
    /\ kstack = <<>>
    /\ CASE kmain = "mkdtemp" ->
                /\ kfs' = kfs \cup {"dir"}
                /\ kmain' = "tmpdir ="
                /\ UNCHANGED <<kptr, kstack>>
         [] kmain = "tmpdir =" ->
                /\ kptr' = [kptr EXCEPT !.tmpdir = "alloc"]
                /\ kmain' = "inputfile ="
                /\ UNCHANGED <<kfs, kstack>>
         [] kmain = "inputfile =" ->
                /\ kptr' = [kptr EXCEPT !.inputfile = "alloc"]
                /\ kmain' = "outputfile ="
                /\ UNCHANGED <<kfs, kstack>>
         [] kmain = "outputfile =" ->
                /\ kptr' = [kptr EXCEPT !.outputfile = "alloc"]
                /\ kmain' = "fopen"
                /\ UNCHANGED <<kfs, kstack>>
         [] kmain = "fopen" ->
                /\ kfs' = kfs \cup {"input", "output"}
                /\ kmain' = "return"
                /\ UNCHANGED <<kptr, kstack>>
         [] kmain = "return" ->
                /\ kstack' = <<[by |-> "exit", pc |-> 1]>>
                /\ kmain' = "exit"
                /\ UNCHANGED <<kptr, kfs>>
    /\ UNCHANGED <<kbad, kended>>
    /\ UNCHANGED baseVars /\ RestUnchangedBut("clean")

\* A handled signal arrives and signal_term_cleanup() starts, unless the
\* handler of this very signal is running
HandledSignal ==
    /\ kended = "running"
    /\ \E s \in HandledSignals :
        /\ \A i \in 1..Len(kstack) : kstack[i].by # s
        /\ kstack' = Append(kstack, [by |-> s, pc |-> 1])
    /\ UNCHANGED <<kptr, kfs, kmain, kbad, kended>>
    /\ UNCHANGED baseVars /\ RestUnchangedBut("clean")

\* The innermost clean_temp_filepath() runs its next statement. A freed
\* pointer that is read gives unlink() or rmdir() any path; a pointer that
\* is freed twice lets the allocator go on or abort the process.
CleanStep ==
    /\ kended = "running"
    /\ kstack # <<>>
    /\ kstack[Len(kstack)].pc <= Len(CleanSteps)
    /\ LET top == Len(kstack)
           step == CleanSteps[kstack[top].pc]
           p == kptr[StepPtr(step)]
           f == StepFile(step)
           go(n) == [kstack EXCEPT ![top].pc = n]
       IN  CASE step = "if (!tmpdir)" ->
                    /\ kstack' = go(IF p = "null" THEN Len(CleanSteps) + 1
                                    ELSE 2)
                    /\ UNCHANGED <<kptr, kfs, kbad, kended>>
             [] step \in {"unlink(inputfile)", "unlink(outputfile)",
                          "rmdir(tmpdir)"} ->
                    /\ kfs' \in IF p = "alloc" /\ Removable(f, kfs)
                                THEN {kfs \ {f}}
                                ELSE IF p = "freed" /\ Removable(f, kfs)
                                THEN {kfs, kfs \ {f}}
                                ELSE {kfs}
                    /\ kbad' = IF p = "freed"
                               THEN kbad \cup {"use after free"} ELSE kbad
                    /\ kstack' = go(kstack[top].pc + 1)
                    /\ UNCHANGED <<kptr, kended>>
             [] step \in {"free(inputfile)", "free(outputfile)",
                          "free(tmpdir)"} ->
                    /\ kptr' = [kptr EXCEPT ![StepPtr(step)] =
                                    IF p = "null" THEN "null" ELSE "freed"]
                    /\ kbad' = IF p = "freed"
                               THEN kbad \cup {"double free"} ELSE kbad
                    /\ kended' \in IF p = "freed" THEN {"running", "abort"}
                                   ELSE {"running"}
                    /\ kstack' = go(kstack[top].pc + 1)
                    /\ UNCHANGED kfs
             [] OTHER ->
                    /\ kptr' = [kptr EXCEPT ![StepPtr(step)] = "null"]
                    /\ kstack' = go(kstack[top].pc + 1)
                    /\ UNCHANGED <<kfs, kbad, kended>>
    /\ UNCHANGED kmain
    /\ UNCHANGED baseVars /\ RestUnchangedBut("clean")

\* The innermost clean_temp_filepath() returns. In a handler the signal is
\* raised again with its default action, and in exit() the process ends:
\* either way nothing more runs.
CleanReturn ==
    /\ kended = "running"
    /\ kstack # <<>>
    /\ kstack[Len(kstack)].pc > Len(CleanSteps)
    /\ kended' = kstack[Len(kstack)].by
    /\ UNCHANGED <<kptr, kfs, kmain, kstack, kbad>>
    /\ UNCHANGED baseVars /\ RestUnchangedBut("clean")

CleanNext == MainStep \/ HandledSignal \/ CleanStep \/ CleanReturn

(***************************************************************************)
(* Specifications                                                          *)
(***************************************************************************)

Init ==
    /\ LoopInit /\ NormIdle /\ MetaIdle /\ ReadIdle
    /\ ParseIdle /\ ProcIdle /\ PrepIdle
    /\ RestIdleBut("")

Next == Attempt \/ Pick

Spec == Init /\ [][Next]_vars

InitNorm ==
    /\ NormInit /\ LoopIdle /\ MetaIdle /\ ReadIdle
    /\ ParseIdle /\ ProcIdle /\ PrepIdle
    /\ RestIdleBut("")

SpecNorm == InitNorm /\ [][NormNext]_vars

InitMeta ==
    /\ MetaInit /\ LoopIdle /\ NormIdle /\ ReadIdle
    /\ ParseIdle /\ ProcIdle /\ PrepIdle
    /\ RestIdleBut("")

SpecMeta == InitMeta /\ [][MetaNext]_vars

InitReaderable ==
    /\ ReadInit /\ LoopIdle /\ NormIdle /\ MetaIdle
    /\ ParseIdle /\ ProcIdle /\ PrepIdle
    /\ RestIdleBut("")

SpecReaderable == InitReaderable /\ [][ReadNext]_vars

InitParse ==
    /\ ParseInit /\ LoopIdle /\ NormIdle /\ MetaIdle
    /\ ReadIdle /\ ProcIdle /\ PrepIdle
    /\ RestIdleBut("")

SpecParse == InitParse /\ [][ParseNext]_vars

InitProc ==
    /\ ProcInit /\ LoopIdle /\ NormIdle /\ MetaIdle /\ ReadIdle
    /\ ParseIdle /\ PrepIdle
    /\ RestIdleBut("")

SpecProc == InitProc /\ [][ProcNext]_vars

InitPrep ==
    /\ PrepInit /\ LoopIdle /\ NormIdle /\ MetaIdle /\ ReadIdle
    /\ ParseIdle /\ ProcIdle
    /\ RestIdleBut("")

SpecPrep == InitPrep /\ [][PrepNext]_vars

InitScore == ScoreInit /\ BaseIdle /\ RestIdleBut("score")

SpecScore == InitScore /\ [][ScoreNext]_vars

InitByline == BylineInit /\ BaseIdle /\ RestIdleBut("byline")

SpecByline == InitByline /\ [][BylineNext]_vars

InitWalk == WalkInit /\ BaseIdle /\ RestIdleBut("walk")

SpecWalk == InitWalk /\ [][WalkNext]_vars

InitWords == WordsInit /\ BaseIdle /\ RestIdleBut("words")

SpecWords == InitWords /\ [][WordsNext]_vars

InitHarvest == HarvestInit /\ BaseIdle /\ RestIdleBut("harvest")

SpecHarvest == InitHarvest /\ [][HarvestNext]_vars

InitSrcset == SrcsetInit /\ BaseIdle /\ RestIdleBut("srcset")

SpecSrcset == InitSrcset /\ [][SrcsetNext]_vars

InitDir == DirInit /\ BaseIdle /\ RestIdleBut("dir")

SpecDir == InitDir /\ [][DirNext]_vars

InitRedir == RedirInit /\ BaseIdle /\ RestIdleBut("redir")

SpecRedir == InitRedir /\ [][RedirNext]_vars

\* The parent and the child run on their own: every step of main() that can
\* be taken is taken
SpecRedirFair == SpecRedir /\ WF_vars(RedirNext)

InitClean == CleanInit /\ BaseIdle /\ RestIdleBut("clean")

SpecClean == InitClean /\ [][CleanNext]_vars

(***************************************************************************)
(* Properties of the retry loop                                            *)
(***************************************************************************)

\* The flags the i-th attempt is expected to run with
ExpectedFlags(i) ==
    CASE i = 1 -> {OPT_STRIP_UNLIKELY, OPT_WEIGHT_CLASSES, OPT_CLEAN_CONDITIONALLY}
      [] i = 2 -> {OPT_WEIGHT_CLASSES, OPT_CLEAN_CONDITIONALLY}
      [] i = 3 -> {OPT_CLEAN_CONDITIONALLY}
      [] OTHER -> {}

\* C1: grab_article makes at most four attempts, each on a fresh copy of the
\* document; an attempt of length >= 500 ends the loop; otherwise exactly one
\* flag is cleared before the next attempt, in the order strip_unlikely,
\* weight_classes, clean_conditionally; a cleared flag is never set again;
\* every attempt is saved in its own free slot of the 4-slot array; the loop
\* stops after the attempt made with all three flags cleared.
C1_RetryLoop ==
    /\ Len(tried) <= 4
    /\ \A i \in 1..Len(tried) :
        /\ tried[i].flags = ExpectedFlags(i)
        /\ \A j \in 1..Len(tried) :
            /\ i # j => tried[i].doc # tried[j].doc
            /\ i # j => tried[i].slot # tried[j].slot
            /\ i < j => tried[j].flags \subseteq tried[i].flags
            /\ i < j => tried[i].length < 500
        /\ i > 1 => Cardinality(tried[i - 1].flags \ tried[i].flags) = 1
        /\ tried[i].slot \in 1..4
        /\ attempts[tried[i].slot] =
               [article |-> tried[i].article, length |-> tried[i].length]
    /\ flags \subseteq DefaultFlags
    /\ (tried # <<>> /\ pc = "loop") =>
          /\ tried[Len(tried)].length < 500
          /\ tried[Len(tried)].flags # {}
          /\ flags = ExpectedFlags(Len(tried) + 1)
    /\ pc \in {"pick", "done"} =>
          \/ tried[Len(tried)].length >= 500
          \/ tried[Len(tried)].flags = {}

\* The loop went through all four attempts
C1_Witness ==
    /\ pc = "done"
    /\ Len(tried) = 4
    /\ tried[4].flags = {}
    /\ tried[4].length = 499

\* The greatest length among the attempts made
MaxTriedLength ==
    CHOOSE m \in {tried[i].length : i \in 1..Len(tried)} :
        \A i \in 1..Len(tried) : tried[i].length <= m

\* C2: grab_article returns the saved attempt with the greatest normalized
\* text length, the earliest one on a tie; an attempt that reaches 500
\* characters is the one returned; the result is NULL only when every attempt
\* has length 0.
C2_BestAttempt ==
    pc = "done" =>
        /\ (result = 0) <=> (\A i \in 1..Len(tried) : tried[i].length = 0)
        /\ result # 0 =>
              \E i \in 1..Len(tried) :
                  /\ result = tried[i].article
                  /\ tried[i].length = MaxTriedLength
                  /\ \A j \in 1..(i - 1) : tried[j].length < MaxTriedLength
        /\ \A i \in 1..Len(tried) :
              tried[i].length >= 500 => result = tried[i].article

\* Two attempts tie for the greatest length and the earlier one is returned
C2_Witness ==
    /\ pc = "done"
    /\ Len(tried) = 4
    /\ tried[2].length = 499
    /\ tried[4].length = 499
    /\ tried[1].length = 120
    /\ result = tried[2].article

(***************************************************************************)
(* Properties of strcpy_normalize()                                        *)
(***************************************************************************)

\* C7: text normalization is idempotent: for every string over ordinary
\* characters, ASCII white space, U+00A0 and U+200B, normalizing the output
\* of strcpy_normalize() again yields that same output.
C7_Idempotent == npc = "twice" => nout2 = nout

\* A string holding both a no-break space and a zero-width space was
\* normalized twice
C7_Witness ==
    /\ npc = "twice"
    /\ \E i \in 1..Len(nsrc) : BytesAt(nsrc, i, NBSP)
    /\ \E i \in 1..Len(nsrc) : BytesAt(nsrc, i, ZWSP)
    /\ nsrc[1] = ByteA
    /\ nout # nsrc
    /\ Len(nout) = 3

(***************************************************************************)
(* Properties of the metadata harvester                                    *)
(***************************************************************************)

\* The attribute of a visited node that names a field: its property when
\* that has the form of a metadata property, else its name when that has the
\* form of a metadata name; dots written as colons
KeyOf(node) ==
    IF node.tag # "meta" THEN <<>>
    ELSE IF property_re(node.property) THEN replace_char(node.property)
    ELSE IF name_re(node.name) THEN replace_char(node.name)
    ELSE <<>>

\* The 0-based index of a visited node in a priority list, or -1 when it is
\* no <meta> of that field or its content is empty
IndexIn(names, node) ==
    LET key == KeyOf(node)
        hits == {i \in 0..(Len(names) - 1) : <<names[i + 1]>> = key}
    IN  IF hits = {} \/ node.content = <<>> THEN -1
        ELSE CHOOSE i \in hits : TRUE

\* The position in the document of the <meta> a field is taken from: the
\* last one among those of smallest index, or 0 when there is none
Chosen(names) ==
    LET idx == [k \in 1..Len(mseen) |-> IndexIn(names, mseen[k])]
        cands == {k \in 1..Len(mseen) : idx[k] >= 0}
        least == {k \in cands : \A j \in cands : idx[k] <= idx[j]}
    IN  IF cands = {} THEN 0
        ELSE CHOOSE k \in least : \A j \in least : j <= k

\* The field holds the normalized content of the chosen <meta>
HoldsChosen(field, names) ==
    LET k == Chosen(names)
    IN  IF k = 0 THEN field = NullStr
        ELSE \E pre \in PreBytes :
                field = Str(strcpy_normalize(mseen[k].content, pre))

\* C8: after the metadata walk each of title, byline and excerpt holds the
\* (normalized) content of the last <meta> in document order, with non-empty
\* content, among those whose name or property has the smallest index in the
\* field's priority list: a larger index never replaces a smaller one, an
\* equal index does; and a title supplied by a <meta> is never replaced by
\* the text of the <title> element.
C8_MetaPriority ==
    /\ HoldsChosen(metadata.byline, authornames)
    /\ HoldsChosen(metadata.excerpt, excerptnames)
    /\ Chosen(titlenames) # 0 => HoldsChosen(metadata.title, titlenames)
    /\ (mpc = "walk" /\ Chosen(titlenames) = 0) => metadata.title = NullStr

\* Two og:title metas tie, a plain title meta of larger index and a <title>
\* element follow; the later of the two og:title contents is the title
C8_Witness ==
    /\ mpc = "done"
    /\ Len(mseen) = 3
    /\ mseen[1].property = <<"og:title">> /\ mseen[1].content = <<ByteA>>
    /\ mseen[2].property = <<"og:title">> /\ mseen[2].content = <<ByteB, SP, TAB>>
    /\ mseen[3].tag = "title"
    /\ metadata.title = Str(<<ByteB, SP>>)

\* The document has no title-bearing <meta> and its <title> reads
\* 'The Real Title | Example Site'
TitleOnlyFromElement ==
    /\ mpc = "done"
    /\ Chosen(titlenames) = 0
    /\ titlenode = Str(TitleWithSite)

\* C9, as stated: for a document with no title-bearing <meta> whose <title>
\* text is 'The Real Title | Example Site', metadata.title is exactly
\* 'The Real Title'; the short-title rule does not revert the cut.
C9_TitleCut == TitleOnlyFromElement => metadata.title = Str(TheRealTitle)

\* C9, amended: for such a document metadata.title is the whole
\* 'The Real Title | Example Site': the cut leaves 3 words, which is <= 4
\* and differs from the separator-split word count of the original minus 1,
\* so the short-title rule reverts to the original.
C9_TitleReverted == TitleOnlyFromElement => metadata.title = Str(TitleWithSite)

\* Such a document was walked, after a description meta
C9_Witness ==
    /\ TitleOnlyFromElement
    /\ Len(mseen) = 2
    /\ mseen[1].name = <<"description">>
    /\ mseen[2].tag = "title"
    /\ metadata.title = Str(TitleWithSite)

(***************************************************************************)
(* Properties of is_probably_readerable()                                  *)
(***************************************************************************)

NoParagraphs(t) == \A i \in 1..Len(t) : t[i].tag \notin {"p", "pre"}

NoBrInDiv(t) ==
    \A i \in 2..Len(t) : ~(t[i].tag = "br" /\ t[Parent(t, i)].tag = "div")

\* C5, as stated: if a document contains no <p> and no <pre> element,
\* is_probably_readerable returns false.
C5_NoParagraphs == (rpc = "checked" /\ NoParagraphs(rdoc)) => ~rverdict

\* C5, amended: if a document contains no <p>, no <pre> and no <br> whose
\* parent is a <div>, is_probably_readerable returns false.
C5_NothingScored ==
    (rpc = "checked" /\ NoParagraphs(rdoc) /\ NoBrInDiv(rdoc)) => ~rverdict

\* A document whose only text is 600 letters in a <div> that has a <br>
\* grandchild but no <br> child was checked
C5_Witness ==
    /\ rpc = "checked"
    /\ NoParagraphs(rdoc) /\ NoBrInDiv(rdoc)
    /\ Len(rdoc) = 4
    /\ rdoc[2].tag = "div" /\ rdoc[2].text = 600
    /\ rdoc[3].tag = "li" /\ rdoc[3].depth = 2
    /\ rdoc[4].tag = "br" /\ rdoc[4].depth = 3
    /\ ~rverdict

\* The score of the whole walk, without the early return
FullScore(t) == ReaderableWalk(t, first_node(t), 0, FALSE).score

\* C6: is_probably_readerable is monotone under adding content: if it
\* returns true for a document it returns true for every document obtained
\* by inserting one more <p> with 200 letters at any position; every
\* contribution is non-negative, so the early return at score > 20 gives the
\* same verdict as summing over the whole walk.
C6_Monotone ==
    /\ (rpc = "rechecked" /\ rverdict) => rverdict2
    /\ rpc \in {"checked", "inserted", "rechecked"} =>
        /\ rverdict <=> (FullScore(rdoc) > 2000)
        /\ \A i \in 1..Len(rdoc) : node_score(rdoc, i) >= 0
    /\ rpc = "rechecked" =>
        /\ rverdict2 <=> (FullScore(rdoc2) > 2000)
        /\ \A i \in 1..Len(rdoc2) : node_score(rdoc2, i) >= 0

\* A readerable document got its new paragraph inside a <div>, after the
\* <br> that makes the walk skip the rest of the <div>
C6_Witness ==
    /\ rpc = "rechecked"
    /\ rverdict /\ rverdict2
    /\ Len(rdoc2) = 4
    /\ rdoc2[2].tag = "div" /\ rdoc2[2].text = 600
    /\ rdoc2[3].tag = "br" /\ rdoc2[3].depth = 2
    /\ rdoc2[4].tag = "p" /\ rdoc2[4].depth = 2 /\ rdoc2[4].text = 200
    /\ Len(rdoc) = 3

(***************************************************************************)
(* Properties of parse()                                                   *)
(***************************************************************************)

\* The tags prep_article() and parse() are to leave out of the article
ForbiddenTags ==
    {"script", "style", "noscript", "iframe", "input", "textarea", "select",
     "button", "aside", "link", "footer", "h1", "object", "embed"}

\* Node i of t is an embed that clean_all() saw holding a video
KeptAsVideo(t, i) ==
    is_embed(t[i]) /\ t[i].origin = "input" /\ t[i].nid \in pkept

\* C3, as stated: once prep_article() has run, and in the node parse()
\* returns, every element with a forbidden tag is an embed that carries a
\* video URL, in an attribute or, for <object>, in its markup.
C3_CarriesVideo ==
    /\ ppc \in {"main", "attempted"} =>
        \A i \in 2..Len(part) :
            part[i].tag \in ForbiddenTags => is_embed_with_video(part, i)
    /\ pout = "ok" =>
        \A i \in 1..Len(pret) :
            pret[i].tag \in ForbiddenTags => is_embed_with_video(pret, i)

\* C3, amended: once prep_article() has run, and in the node parse()
\* returns, every element with a forbidden tag is an embed that held a video
\* URL when clean_all() examined it; no later step brings another one in.
C3_KeptAsVideo ==
    /\ ppc \in {"main", "attempted"} =>
        \A i \in 2..Len(part) :
            part[i].tag \in ForbiddenTags => KeptAsVideo(part, i)
    /\ pout = "ok" =>
        \A i \in 1..Len(pret) :
            pret[i].tag \in ForbiddenTags => KeptAsVideo(pret, i)

\* A successful extraction returns an <iframe> kept for its video, whose
\* URL went with its class attribute, beside a second element
C3_Witness ==
    /\ pout = "ok"
    /\ Len(pret) >= 3
    /\ \E i \in 2..Len(pret) :
        /\ pret[i].tag = "iframe"
        /\ KeptAsVideo(pret, i)
        /\ ~is_embed_with_video(pret, i)

\* The elements of a tree with id="readability-page-1" and class="page"
MainDivs(t) ==
    {i \in 1..Len(t) : t[i].id = PageId /\ t[i].class = <<PageClass>>}

C10_ChildlessRoot ==
    pchildless =>
        /\ pout # "sigsegv"
        /\ ppc = "exit" => pout = "no content"

(***************************************************************************)
(* Properties of main(), of the sandbox and of the temporary files         *)
(***************************************************************************)

\* C11: the document is parsed and the extraction code is run only by the
\* forked child, and unless --disable-sandbox is given only once its sandbox
\* is loaded; the parent never does either, and a child whose sandbox cannot
\* be started exits before the document is parsed.
C11_SandboxFirst ==
    /\ \A e \in events :
        e.what \in {"parse", "extract"} =>
            e.by = "child" /\ (e.boxed \/ disable_sandbox)
    /\ childpc \in {"parse", "redirect", "extract"} =>
            sandboxed \/ disable_sandbox

\* The parent has returned from main() after a child parsed the document
\* and extracted the article inside its sandbox
C11_Witness ==
    /\ ended = "return"
    /\ ~disable_sandbox
    /\ Event("parse", "child", TRUE) \in events
    /\ Event("extract", "child", TRUE) \in events

\* C12: once the parent has ended after set_cleanup_handlers(), by a return
\* from main(), by exit() or by one of the five signals at any point, the
\* temporary directory and the two files in it are gone; the child never
\* removes them.
C12_TempRemoved ==
    /\ handlers /\ ended # "running" => files = {}
    /\ \A e \in events : e.what = "remove" => e.by = "parent"

(***************************************************************************)
(* Properties of the prepared document                                     *)
(***************************************************************************)

\* C13: for the same document, the Readerable line of metadata mode says
\* Yes exactly when check mode found the document readerable.
C13_SameVerdict ==
    dpc = "done" /\ dmeta # "none" => dmeta = dcheck

\* Nodes i < j of t are <br> siblings with nothing between them but text
\* nodes without content
BrPair(t, i, j) ==
    /\ i < j
    /\ t[i].tag = "br"
    /\ t[j].tag = "br"
    /\ Parent(t, i) = Parent(t, j)
    /\ \A k \in (i + 1)..(j - 1) : t[k].tag = "#text" /\ t[k].text = 0

\* C14: the prepared document has no <script>, <noscript> or <style>
\* element, no comment and no <br> followed, white space aside, by a <br>.
C14_Prepared ==
    dpc \in {"prepared", "done"} =>
        /\ \A i \in 1..Len(dprep) :
            dprep[i].tag \notin {"script", "noscript", "style", "#comment"}
        /\ \A i, j \in 1..Len(dprep) : ~BrPair(dprep, i, j)

\* A document with a <br>, white space, <br> run has been prepared, and the
\* run has become a paragraph
C14_Witness ==
    /\ dpc = "prepared"
    /\ \E i, j \in 1..Len(ddoc) : j > i + 1 /\ BrPair(ddoc, i, j)
    /\ \E i \in 1..Len(dprep) : dprep[i].tag = "p"

(***************************************************************************)
(* Properties of the scoring                                               *)
(***************************************************************************)

\* C15: once consider_for_top_list() has multiplied the score of a candidate
\* by (1 - link density), the score of that node is not negative.
C15_NonNegative ==
    \A e \in slog :
        e.what = "normalize" => RatLeq(Rat(0, 1), sdoc[e.node].score)

\* C15, as the code has it: the score of a normalized candidate is its score
\* before times (1 - link density); it is not negative when the score before
\* was not negative and the link density is at most 1, and it is negative
\* when the score before was negative and the link density is below 1.
C15_ScaledByLinkDensity ==
    \A e \in slog :
        e.what = "normalize" =>
            LET after == sdoc[e.node].score
            IN  /\ after.n * e.before.d * e.density.d
                    = e.before.n * (e.density.d - e.density.n) * after.d
                /\ RatLeq(Rat(0, 1), e.before) /\ RatLeq(e.density, Rat(1, 1))
                    => RatLeq(Rat(0, 1), after)
                /\ ~RatLeq(Rat(0, 1), e.before) /\ ~RatLeq(Rat(1, 1), e.density)
                    => ~RatLeq(Rat(0, 1), after)

\* A candidate that initialize_node() left below zero has been normalized
\* with some of its text in a link
C15_Witness ==
    \E e \in slog :
        /\ e.what = "normalize"
        /\ e.before.n < 0
        /\ e.density.n > 0
        /\ ~RatLeq(Rat(1, 1), e.density)
        /\ sdoc[e.node].tag = "ul"

\* Whether run_on_nodes(tempdoc, assign_content_score) is past node i
Assigned(i) == spc # "assign" \/ i < scur

\* Node i is to be scored, is not the root element and has 25 code points
\* of text or more
HasContentToScore(t, i) ==
    t[i].to_score /\ i > 1 /\ text_content_length(t, i) >= 25

\* Whether the log has assign_content_score() on node i add amount to node a
Received(i, a, amount) ==
    \E e \in slog :
        e.what = "score" /\ e.node = i /\ e.to = a /\ RatEq(e.amount, amount)

\* C16: a node to score with an element parent and L >= 25 code points of
\* text propagates s = 1 + commas + min(L / 100, 3): its parent receives s,
\* its grandparent s / 2 and its great-grandparent s / 6.
C16_RawScore ==
    \A i \in 1..Len(sdoc) :
        Assigned(i) /\ HasContentToScore(sdoc, i) =>
            LET s == 1 + SumCommas(sdoc, i, SubtreeEnd(sdoc, i, i))
                     + Min(text_content_length(sdoc, i) \div 100, 3)
            IN  /\ Received(i, Ancestor(sdoc, i, 1), Rat(s, 1))
                /\ Ancestor(sdoc, i, 2) # 0
                    => Received(i, Ancestor(sdoc, i, 2), Rat(s, 2))
                /\ Ancestor(sdoc, i, 3) # 0
                    => Received(i, Ancestor(sdoc, i, 3), Rat(s, 6))

\* What node a is to get from node i, by the rule of C16 as the code has it
ShareOf(t, i, a) ==
    LET s == 2 + SumCommas(t, i, SubtreeEnd(t, i, i))
             + Min(text_content_length(t, i) \div 100, 3)
    IN  IF ~HasContentToScore(t, i) \/ a = 1 THEN Rat(0, 1)
        ELSE IF a = Ancestor(t, i, 1) THEN Rat(s, 1)
        ELSE IF a = Ancestor(t, i, 2) THEN Rat(s, 2)
        ELSE IF a = Ancestor(t, i, 3) THEN Rat(s, 6)
        ELSE Rat(0, 1)

RECURSIVE ShareSum(_, _, _)
ShareSum(t, a, i) ==
    IF i > Len(t) THEN Rat(0, 1)
    ELSE RatAdd(ShareOf(t, i, a), ShareSum(t, a, i + 1))

\* C16, as the code has it: s = 2 + commas + min(L / 100, 3), one point for
\* the paragraph and one more than the commas; of the three nearest
\* ancestors each one but the root element receives its share, s, s / 2 and
\* s / 6 by its level, and nothing else is added to any node: when all the
\* nodes are scored, the score of a node that received something is its
\* initial score plus its shares and the score of every other node is zero.
C16_ContentScore ==
    /\ \A i \in 1..Len(sdoc) :
        Assigned(i) /\ HasContentToScore(sdoc, i) =>
            \A a \in 1..(i - 1) :
                ShareOf(sdoc, i, a).n # 0
                    => Received(i, a, ShareOf(sdoc, i, a))
    /\ \A e \in slog :
        e.what = "score" =>
            /\ e.to # 1
            /\ HasContentToScore(sdoc, e.node)
            /\ RatEq(e.amount, ShareOf(sdoc, e.node, e.to))
    /\ spc = "consider" /\ scur = first_node(sdoc) =>
        \A a \in 1..Len(sdoc) :
            /\ sdoc[a].candidate <=> ShareSum(sdoc, a, 1).n # 0
            /\ sdoc[a].candidate =>
                RatEq(sdoc[a].score,
                      RatAdd(initialize_node(
                                [sdoc[a] EXCEPT !.score = Rat(0, 1)]).score,
                             ShareSum(sdoc, a, 1)))
            /\ ~sdoc[a].candidate => sdoc[a].score.n = 0

\* A paragraph with a comma has been scored and its great-grandparent, which
\* is not the root element, has received a sixth of the score
C16_Witness ==
    \E e \in slog :
        /\ e.what = "score"
        /\ e.to = Ancestor(sdoc, e.node, 3)
        /\ sdoc[e.node].commas = 1
        /\ RatEq(e.amount, Rat(4, 6))

\* The candidates of the attempt
Candidates == {i \in 1..Len(sdoc) : sdoc[i].candidate}

\* Candidate c ranks before candidate d: a higher score, or the same score
\* and an earlier place in the document
RanksBefore(c, d) ==
    \/ ~RatLeq(sdoc[c].score, sdoc[d].score)
    \/ RatEq(sdoc[c].score, sdoc[d].score) /\ c < d

Rank(c) == Cardinality({d \in Candidates : RanksBefore(d, c)}) + 1

\* C17: when all the candidates of an attempt have been offered, the list
\* holds the five candidates with the highest normalized scores, or all of
\* them if they are fewer, the higher score first and, for equal scores, the
\* candidate that comes first in the document first; the candidates end at
\* the first NULL and no score of a freed node was read.
C17_TopFive ==
    spc = "top" =>
        /\ \A k \in 1..DEFAULT_N_TOP_CANDIDATES :
            IF k <= Cardinality(Candidates)
            THEN stops[k] \in Candidates /\ Rank(stops[k]) = k
            ELSE k = Cardinality(Candidates) + 1 => stops[k] = 0
        /\ \A e \in slog : e.what # "read of a freed node"

\* A later attempt has offered more than five candidates, and the sixth by
\* rank has the score of the fifth
C17_Witness ==
    /\ spc = "top"
    /\ sattempt = 2
    /\ \E c \in Candidates :
        /\ Rank(c) = DEFAULT_N_TOP_CANDIDATES + 1
        /\ RatEq(sdoc[c].score, sdoc[stops[DEFAULT_N_TOP_CANDIDATES]].score)

(***************************************************************************)
(* Properties of the byline                                                *)
(***************************************************************************)

\* Node n of the document is visible, looks like a byline and has more than
\* 0 and fewer than 100 characters of text
Qualifies(n) ==
    /\ ~bdoc[n].hidden
    /\ bdoc[n].byline
    /\ text_content_length(bdoc, n) > 0
    /\ text_content_length(bdoc, n) < 100

\* C18: within one extraction the byline is taken from at most one node, the
\* first node that the walk visits and that is visible, looks like a byline
\* and has between 1 and 99 characters of text, be it unlikely or not; no
\* node visited later changes the byline, and a byline that a <meta> gave
\* is never overwritten.
C18_BylineOnce ==
    /\ Len(bcaptured) <= 1
    /\ \A k \in 1..Len(bvisited) :
        Qualifies(bvisited[k])
        /\ (\A j \in 1..(k - 1) : ~Qualifies(bvisited[j]))
            => bcaptured = <<bvisited[k]>>
    /\ (\A k \in 1..Len(bvisited) : ~Qualifies(bvisited[k]))
        => bcaptured = <<>>
    /\ bbyline \in {MetaByline} \cup
                   {IF bcaptured = <<>> THEN 0 ELSE bcaptured[1]}
    /\ found_byline <=> bcaptured # <<>>

\* The byline was taken from an unlikely node while unlikely nodes were
\* being stripped, and a node that qualifies as well was visited after it
C18_Witness ==
    /\ battempt = 1
    /\ bcaptured # <<>>
    /\ bdoc[bcaptured[1]].unlikely
    /\ bbyline = bcaptured[1]
    /\ \E k \in 1..Len(bvisited) :
        bvisited[k] > bcaptured[1] /\ Qualifies(bvisited[k])

(***************************************************************************)
(* Properties of bw_remove_descendants_if()                                *)
(***************************************************************************)

\* The descendants of the root of the walk, in the tree before the call
WalkDescendants == (wroot + 1)..SubtreeEnd(wdoc, wroot, wroot)

\* C19: bw_remove_descendants_if(root, pred) evaluates pred on the
\* descendants of root in reverse document order, each node after all of
\* its own descendants, and on no node outside the subtree of root, whatever
\* siblings or ancestors root has; it ends at root.
C19_ReverseWalk ==
    /\ \A k \in 1..Len(wevals) : wevals[k] \in WalkDescendants
    /\ \A j, k \in 1..Len(wevals) : j < k => wevals[j] > wevals[k]
    /\ wpc = "done" =>
        /\ wcur = wroot
        /\ {wevals[k] : k \in 1..Len(wevals)} = WalkDescendants

(***************************************************************************)
(* Properties of word_count()                                              *)
(***************************************************************************)

\* The number of maximal runs, in str, of bytes that are not in the set gaps
Runs(str, gaps) ==
    Cardinality({i \in 1..Len(str) :
        str[i] \notin gaps /\ (i = 1 \/ str[i - 1] \in gaps)})

\* C20: word_count(s, false) is the number of maximal runs of characters
\* that are not white space, and word_count(s, true) is the number of
\* maximal runs of characters that are neither white space nor separators,
\* also when a separator stands alone between spaces.
C20_WordCount ==
    /\ cpc \in {"plain", "done"} =>
        cplain = Runs(cstr, {b \in WordBytes : isspace(b)})
    /\ cpc = "done" =>
        cseps = Runs(cstr, {b \in WordBytes : isspace(b) \/ IsSeparator(b)})

(***************************************************************************)
(* Properties of strcpy_normalize() as a function of its input             *)
(***************************************************************************)

\* The string from byte i on with every maximal run of ASCII white space and
\* U+00A0 turned into one space and every U+200B deleted; inrun tells
\* whether the character before byte i belongs to such a run
RECURSIVE Collapsed(_, _, _)
Collapsed(src, i, inrun) ==
    IF i > Len(src) THEN <<>>
    ELSE IF isspace(src[i])
         THEN (IF inrun THEN <<>> ELSE <<SP>>) \o Collapsed(src, i + 1, TRUE)
    ELSE IF BytesAt(src, i, NBSP)
         THEN (IF inrun THEN <<>> ELSE <<SP>>) \o Collapsed(src, i + 2, TRUE)
    ELSE IF BytesAt(src, i, ZWSP) THEN Collapsed(src, i + 3, FALSE)
    ELSE <<src[i]>> \o Collapsed(src, i + 1, FALSE)

\* C21: the output of strcpy_normalize() is its input with each maximal run
\* of ASCII white space and U+00A0 replaced by one space and each U+200B
\* deleted, and nothing else added, dropped or moved, wherever the white
\* space and the U+200B stand.
C21_Collapsed ==
    npc \in {"once", "twice"} => nout = Collapsed(nsrc, 1, FALSE)

(***************************************************************************)
(* Properties of the order of the steps of parse()                         *)
(***************************************************************************)

\* C22: the metadata is harvested before any step of the preparation has
\* modified the document: no step has changed it when the harvest is done,
\* and the site name is the one that the document as parsed gives.
C22_HarvestedFirst ==
    hpc = "grab_article" =>
        /\ hsteps = <<>>
        /\ hsite = get_article_metadata(hdoc)

\* The place of a step in the preparation
Rank4(step) ==
    CASE step = "comments" -> 1
      [] step = "unwrap" -> 2
      [] step = "scripts" -> 3
      [] step = "prep_document" -> 4

\* Whether node i of t lies in an element with one of the tags, or is one
InsideTag(t, i, tags) ==
    \E a \in 1..i : t[a].tag \in tags /\ i <= SubtreeEnd(t, a, a)

\* The <meta> elements with a content that the preparation leaves in place
KeptMetas(t) ==
    {i \in 1..Len(t) :
        /\ t[i].tag = "meta"
        /\ t[i].content # ""
        /\ ~InsideTag(t, i, {"script", "noscript"})}

\* C22 (amended): the metadata is harvested after the four steps of the
\* preparation, in their order, and the site name is the content of the
\* last <meta> with a content that lies in no <script> or <noscript>.
C22_HarvestedAfterPreparation ==
    /\ hpc = "metadata" =>
        /\ \A i, j \in 1..Len(hsteps) :
            i < j => Rank4(hsteps[i]) < Rank4(hsteps[j])
        /\ hwork = PreparedDoc(hdoc)
    /\ hpc = "grab_article" =>
        hsite = IF KeptMetas(hdoc) = {} THEN ""
                ELSE hdoc[CHOOSE i \in KeptMetas(hdoc) :
                              \A j \in KeptMetas(hdoc) : j <= i].content

\* The metadata has been harvested from a document whose <noscript> held
\* the last <meta> with a content, after the removal of that <noscript>
C22_Witness ==
    /\ hpc = "grab_article"
    /\ "scripts" \in {hsteps[i] : i \in 1..Len(hsteps)}
    /\ hsite # get_article_metadata(hdoc)
    /\ hsite # ""

(***************************************************************************)
(* Properties of build_srcset()                                            *)
(***************************************************************************)

\* C23: build_srcset() never writes past the buffer it allocates: the bytes
\* written, terminator included, are at most the length computed for the
\* allocation, also for a list with a url or a size longer than 4096 bytes.
C23_WithinBuffer ==
    epc \in {"assemble", "returned", "killed"} => eused <= elen

(***************************************************************************)
(* Properties of the call of extract_text_direction()                      *)
(***************************************************************************)

\* C24: when grab_article() returns an article, the node passed to
\* extract_text_direction() is the top candidate of the attempt whose
\* article is returned, and it has not been freed.
C24_ChosenTop ==
    gpc \in {"return", "returned", "killed"} /\ gresult # 0 =>
        /\ gpassed.attempt = gresult
        /\ ~gpassed.freed

\* The first loop of grab_article() from node cur on, on a working copy t:
\* the copy that the loop leaves
RECURSIVE PreScoringPass(_, _, _, _, _)
PreScoringPass(t, cur, strip, found, byline) ==
    IF cur = 0 THEN t
    ELSE LET r == no_need_to_score(t, cur, strip, found, byline)
             t1 == IF r.ret THEN RemoveSubtree(t, cur) ELSE t
             next == IF r.ret THEN (IF cur <= Len(t1) THEN cur ELSE 0)
                     ELSE following_node(t, cur)
         IN  PreScoringPass(t1, next, strip, r.found, r.byline)

\* C25: the walk before the scoring of an attempt leaves what it would
\* leave if the attempt were the first one with the flags in force: no
\* state left by an earlier attempt, as the byline latch, changes it.
C25_AttemptIsFunction ==
    bpc = "walked" =>
        btemp = PreScoringPass(bdoc, first_node(bdoc), bstrip, FALSE, 0)

C27_Terminates ==
    /\ <>(upc = "returned")
    /\ [](upc = "while" /\ uret = STATUS_HTML_REDIRECT => ukind = "remote")

(***************************************************************************)
(* Properties of the cleanup under signals                                 *)
(***************************************************************************)

\* C28: whenever a handled signal arrives, also while clean_temp_filepath()
\* is running or between mkdtemp() and the assignment of tmpdir, no path is
\* freed twice or used after it was freed, and when the process has ended
\* the directory and the files are gone.
C28_SafeCleanup ==
    /\ kbad = {}
    /\ kended # "running" => kfs = {}

\* C29: in every attempt, each entry of tops[] that consider_for_top_list()
\* or find_better_top_candidate() reads as a node is a node of the current
\* working copy: the pointers that an earlier attempt left in slots 1..4
\* are never read.
C29_NoStaleRead ==
    /\ \A e \in slog : e.what # "read of a freed node"
    /\ spc = "top" =>
        \A k \in BetterTopReads(stops, sdoc) : stops[k] \in 2..Len(sdoc)

\* In a second attempt find_better_top_candidate() reads more than tops[0]
\* while a pointer left by the first attempt is still in the list
C29_Witness ==
    /\ spc = "top"
    /\ sattempt = 2
    /\ \E k \in 1..DEFAULT_N_TOP_CANDIDATES : stops[k] = Dangling
    /\ Cardinality(BetterTopReads(stops, sdoc)) > 1

\* C30: strcpy_normalize() reads and writes the destination buffer only at
\* the indices 0..strlen(src) and reads the source only up to its
\* terminator, for every input, also when white space and a U+200B stand at
\* the start of the string and when white space stands at its end.
C30_WithinBuffers ==
    npc = "once" =>
        \A pre \in PreBytes :
            /\ ~NormRun(nsrc, pre).under
            /\ NormRun(nsrc, pre).end <= Len(nsrc)
            /\ NormRun(nsrc, pre).span <= Len(nsrc) + 1

====
